---- MODULE Spec2Model ----
(***************************************************************************)
(* Digital Garden: the realtime session relay (server/src/socket.js), its  *)
(* flower store (server/src/routes/flowers.js) and the network client      *)
(* adapter (client/src/network/SocketClient.js) as state machines.         *)
(*                                                                         *)
(* Relay handlers run to completion one at a time (single-threaded event   *)
(* dispatch); one action models one handler invocation.  JavaScript object *)
(* identity is kept: player entries live in a heap and both the registry   *)
(* Map and each connection's closure variable currentPlayer hold           *)
(* references into it.                                                     *)
(***************************************************************************)
EXTENDS Integers, Sequences, FiniteSets, TLC

\* ------------------------------------------------------------------ bounds

\* Number of transport connections ever accepted by the relay.
NumSockets == 3

Sockets == 1..NumSockets

\* Number of events handled in one run.
MaxEvents == 6

\* Number of flower:place events in one run.
MaxFlowers == 2

\* Client-supplied player ids (opaque strings).
PlayerIds == {"a", "b"}

\* JavaScript null / undefined in an object-valued position.
Null == [null |-> TRUE]

Tom == [type |-> "orange", name |-> "Tom"]

\* player:join payloads {id, nickname, x, y, cat?}: a full one, one whose
\* optional fields are falsy, and one whose optional fields are missing.
JoinPayloads ==
    {[id |-> i, nickname |-> "Ann", x |-> 1, y |-> 2, cat |-> Tom] : i \in PlayerIds}
        \cup {[id |-> i, nickname |-> "", x |-> 0, y |-> 0, cat |-> Null] : i \in PlayerIds}
        \cup {[id |-> i] : i \in PlayerIds}

\* player:move payloads {x, y, direction, isMoving}.
MovePayloads ==
    {[x |-> 10, y |-> 20, direction |-> 0, isMoving |-> TRUE],
     [x |-> 0, y |-> 0, direction |-> 3, isMoving |-> FALSE]}

\* player:cat payloads: {type, name} or null.
CatPayloads == {Null, Tom}

\* The joins taken while flowers are placed: one with a nickname, one without.
FlowerJoinPayloads ==
    {[id |-> "a", nickname |-> "Ann", x |-> 1, y |-> 2, cat |-> Tom], [id |-> "b"]}

\* flower:place payloads {x, y, imageData, createdBy}.
FlowerPayloads ==
    {[x |-> 5, y |-> 5, imageData |-> "X", createdBy |-> "a"],
     [x |-> 7, y |-> 9, imageData |-> "X", createdBy |-> "zz"]}

\* ------------------------------------------------------------------- state

VARIABLES
    status,         \* socket -> "new" | "open" | "closed" (transport connection)
    currentPlayer,  \* socket -> heap reference, 0 for null (closure variable)
    players,        \* the registry Map: sequence of [key, ref] in insertion order
    heap,           \* reference -> player entry object
    lastEvent,      \* the event whose handler ran last
    lastEmits,      \* the emits of that handler, in program order
    events,         \* number of events handled so far
    \* flower store (routes/flowers.js) and the relay's calls into it
    supabaseConfigured, \* isSupabaseConfigured(): fixed by the environment
    inMemoryFlowers,    \* the in-memory fallback list
    dbFlowers,          \* rows of the external flowers table
    pending,            \* createFlower calls awaiting the external insert
    nextFlowerId,       \* stands for crypto.randomUUID(): next unused id
    broadcasts,         \* flower id -> number of flower:placed broadcasts so far
    \* network client adapter (SocketClient.js), one instance
    socket,         \* this.socket: "null" | "connecting" | "connected" | "disconnected"
    connected,      \* this.connected
    playerData,     \* the playerData captured by connect()
    promise,        \* the promise returned by connect()
    lastCall,       \* the adapter call made last and what it did
    hooks,          \* callback property -> handler assigned to it, 0 for null
    firstSent,      \* first event sent since the transport last connected
    dispatched,     \* an inbound event was dispatched on the current connection
    \* game client (Engine, GameMap, Player)
    seed,           \* the outcome of Math.random() in GameMap.generateMap
    localPlayer,    \* Engine.localPlayer
    appended,       \* every sample pushed to the local player's history, in order
    frames,         \* number of calls made in a long run
    cat,            \* Engine.cat, a Cat whose owner is the local player
    query,          \* the last call of a function of the game and its result
    camera,         \* Engine.camera
    keys,           \* Engine.keys: the direction keys held down
    handlers,       \* the callbacks installed on the engine
    placement,      \* Engine.flowerPlacementMode and Engine.pendingFlower
    mapFlowers,     \* GameMap.flowers
    remotePlayers,  \* Engine.remotePlayers: id -> Player
    remoteCats,     \* Engine.remoteCats: id -> Cat, with the Player object it follows
    playerObjects,  \* which Player object each remote id holds, and the removed
                    \* Player objects that a cat still refers to
    lastFrame,      \* the engine call made last and what it did
    clients,        \* per connection: the browser's player id, flag, remote
                    \* players and cats, flower list and last join or move sent
    uplink,         \* per connection: events sent to the relay, not yet handled
    downlink        \* per connection: events sent by the relay, not yet handled

relayVars == <<status, currentPlayer, players, heap>>

flowerVars == <<supabaseConfigured, inMemoryFlowers, dbFlowers, pending, nextFlowerId,
                broadcasts>>

clientVars == <<socket, connected, playerData, promise, lastCall, hooks, firstSent,
                dispatched>>

vars == <<status, currentPlayer, players, heap, lastEvent, lastEmits, events,
          supabaseConfigured, inMemoryFlowers, dbFlowers, pending, nextFlowerId,
          broadcasts, socket, connected, playerData, promise, lastCall, hooks, firstSent,
          dispatched, seed, localPlayer, appended, frames, cat, query,
          camera, keys, handlers, placement, mapFlowers, remotePlayers, remoteCats,
          playerObjects, lastFrame, clients, uplink, downlink>>

catVars == <<remoteCats, playerObjects>>

engineVars == <<keys, handlers, placement, mapFlowers, remotePlayers, catVars, lastFrame>>

gameVars == <<seed, localPlayer, appended, frames, cat, query, camera, engineVars>>

gardenVars == <<clients, uplink, downlink>>

netVars == <<relayVars, lastEvent, lastEmits, events, flowerVars, clientVars, gardenVars>>

netVarsNoEvents == <<relayVars, lastEvent, lastEmits, flowerVars, clientVars, gardenVars>>

\* --------------------------------------------------------------- Map model

\* Map.prototype.has
MapHas(m, k) == \E i \in 1..Len(m) : m[i].key = k

\* Map.prototype.get (only used where MapHas holds)
MapGet(m, k) == m[CHOOSE i \in 1..Len(m) : m[i].key = k].ref

\* Map.prototype.set: an existing key keeps its position, a new key is appended
MapSet(m, k, r) ==
    IF MapHas(m, k)
    THEN [i \in 1..Len(m) |-> IF m[i].key = k THEN [key |-> k, ref |-> r] ELSE m[i]]
    ELSE Append(m, [key |-> k, ref |-> r])

\* Map.prototype.delete
MapDelete(m, k) == SelectSeq(m, LAMBDA e : e.key # k)

\* Array.from(map.values()), dereferenced (what the wire serialisation carries)
MapValues(m, h) == [i \in 1..Len(m) |-> h[m[i].ref]]

\* ------------------------------------------------------------ socket.io

\* Sockets currently connected to the server.
Open == {s \in Sockets : status[s] = "open"}

\* socket.emit: to this socket only.
ToSocket(s) == {s}

\* socket.broadcast.emit: to every connected socket except the sender.
ToOthers(s) == Open \ {s}

\* io.emit: to every connected socket.
ToAll == Open

Emit(ev, to, payload) == [ev |-> ev, to |-> to, payload |-> payload]

\* ---------------------------------------------------------------- heap

MaxRefs == NumSockets + Cardinality(PlayerIds) + 1

\* A fresh object identity.
NewRef(h) == CHOOSE r \in 1..MaxRefs : r \notin DOMAIN h /\ \A q \in 1..(r - 1) : q \in DOMAIN h

\* Objects no longer referenced by the registry or a closure are collected.
Collect(h, ps, cur) ==
    LET live == {ps[i].ref : i \in 1..Len(ps)} \cup {cur[s] : s \in Sockets}
    IN  [r \in (DOMAIN h) \cap live |-> h[r]]

\* ------------------------------------------------------------- handlers

\* The entry object literal built by player:join.
NewPlayer(s, data) ==
    [id        |-> data.id,
     socketId  |-> s,
     nickname  |-> IF "nickname" \in DOMAIN data /\ data.nickname # ""
                   THEN data.nickname ELSE "Guest",
     x         |-> IF "x" \in DOMAIN data THEN data.x ELSE 0,
     y         |-> IF "y" \in DOMAIN data THEN data.y ELSE 0,
     direction |-> 0,
     isMoving  |-> FALSE,
     cat       |-> IF "cat" \in DOMAIN data THEN data.cat ELSE Null]

\* The snapshot without its filter.
CurrentPlayersUnfiltered(ps, h, id) == MapValues(ps, h)

\* Array.from(players.values()).filter(p => p.id !== data.id)
CurrentPlayers(ps, h, id) == SelectSeq(MapValues(ps, h), LAMBDA p : p.id # id)

\* The emits of player:join with the count sent first.
JoinEmitsCountFirst(s, snapshot, entry, size) ==
    << Emit("player:count", ToAll, size),
       Emit("players:current", ToSocket(s), snapshot),
       Emit("player:joined", ToOthers(s), entry) >>

\* The three emits of player:join, in program order.
JoinEmits(s, snapshot, entry, size) ==
    << Emit("players:current", ToSocket(s), snapshot),
       Emit("player:joined", ToOthers(s), entry),
       Emit("player:count", ToAll, size) >>

\* io.on('connection'): a new socket with currentPlayer = null.
Connection(s) ==
    /\ status[s] = "new"
    /\ \A q \in Sockets : q < s => status[q] # "new"
    /\ status' = [status EXCEPT ![s] = "open"]
    /\ currentPlayer' = [currentPlayer EXCEPT ![s] = 0]
    /\ lastEvent' = [type |-> "connection", socket |-> s]
    /\ lastEmits' = << >>
    /\ UNCHANGED <<players, heap>>

\* socket.on('player:join')
PlayerJoin(s, data) ==
    /\ status[s] = "open"
    /\ LET r     == NewRef(heap)
           entry == NewPlayer(s, data)
           h1    == [q \in (DOMAIN heap) \cup {r} |-> IF q = r THEN entry ELSE heap[q]]
           ps1   == MapSet(players, data.id, r)
           cur1  == [currentPlayer EXCEPT ![s] = r]
       IN  /\ currentPlayer' = cur1
           /\ players' = ps1
           /\ heap' = Collect(h1, ps1, cur1)
           /\ lastEmits' = JoinEmits(s, CurrentPlayers(ps1, h1, data.id), entry, Len(ps1))
    /\ lastEvent' = [type |-> "player:join", socket |-> s, id |-> data.id,
                     joined |-> currentPlayer[s] # 0]
    /\ UNCHANGED status

\* A count broadcast placed outside the if (currentPlayer) block.
NotJoinedEmitsCount == << Emit("player:count", ToAll, Len(players)) >>

\* if (currentPlayer) { ... } has no else branch: a handler running on a
\* socket that never joined emits nothing.
NotJoinedEmits == << >>

\* The emit of player:cat.
CatEmits(s, entry, catData) ==
    << Emit("player:cat:updated", ToOthers(s), [playerId |-> entry.id, cat |-> catData]) >>

\* socket.on('player:cat')
PlayerCat(s, catData) ==
    /\ status[s] = "open"
    /\ IF currentPlayer[s] # 0
       THEN LET r == currentPlayer[s]
            IN  /\ heap' = [heap EXCEPT ![r].cat = catData]
                /\ lastEmits' = CatEmits(s, heap[r], catData)
       ELSE /\ heap' = heap
            /\ lastEmits' = NotJoinedEmits
    /\ lastEvent' = [type |-> "player:cat", socket |-> s, data |-> catData,
                     joined |-> currentPlayer[s] # 0]
    /\ UNCHANGED <<status, currentPlayer, players>>

\* The move notification sent with io.emit, echoing to the sender.
MoveEmitsToAll(s, entry, data) ==
    << Emit("player:moved", ToAll,
            [id |-> entry.id, nickname |-> entry.nickname, x |-> data.x, y |-> data.y,
             direction |-> data.direction, isMoving |-> data.isMoving]) >>

\* The emit of player:move.
MoveEmits(s, entry, data) ==
    << Emit("player:moved", ToOthers(s),
            [id |-> entry.id, nickname |-> entry.nickname, x |-> data.x, y |-> data.y,
             direction |-> data.direction, isMoving |-> data.isMoving]) >>

\* socket.on('player:move')
PlayerMove(s, data) ==
    /\ status[s] = "open"
    /\ IF currentPlayer[s] # 0
       THEN LET r == currentPlayer[s]
            IN  /\ heap' = [heap EXCEPT ![r].x = data.x, ![r].y = data.y,
                                        ![r].direction = data.direction,
                                        ![r].isMoving = data.isMoving]
                /\ lastEmits' = MoveEmits(s, heap[r], data)
       ELSE /\ heap' = heap
            /\ lastEmits' = NotJoinedEmits
    /\ lastEvent' = [type |-> "player:move", socket |-> s, data |-> data,
                     joined |-> currentPlayer[s] # 0]
    /\ UNCHANGED <<status, currentPlayer, players>>

\* The two emits of the disconnect handler, in program order; the socket has
\* already left the server when the handler runs.
DisconnectEmits(s, id, size) ==
    << Emit("player:left", ToAll \ {s}, id),
       Emit("player:count", ToAll \ {s}, size) >>

\* socket.on('disconnect')
Disconnect(s) ==
    /\ status[s] = "open"
    /\ status' = [status EXCEPT ![s] = "closed"]
    /\ LET cur1 == [currentPlayer EXCEPT ![s] = 0]
       IN  /\ currentPlayer' = cur1
           /\ IF currentPlayer[s] # 0
              THEN LET id  == heap[currentPlayer[s]].id
                       ps1 == MapDelete(players, id)
                   IN  /\ players' = ps1
                       /\ heap' = Collect(heap, ps1, cur1)
                       /\ lastEmits' = DisconnectEmits(s, id, Len(ps1))
              ELSE /\ players' = players
                   /\ heap' = heap
                   /\ lastEmits' = NotJoinedEmits
    /\ lastEvent' = [type |-> "disconnect", socket |-> s,
                     joined |-> currentPlayer[s] # 0,
                     id |-> IF currentPlayer[s] # 0 THEN heap[currentPlayer[s]].id ELSE ""]

\* ---------------------------------------------------------- flower store

\* The record createFlower builds; created_at is the relay's logical time.
NewFlower(flowerData, id, now) ==
    [id         |-> id,
     x          |-> flowerData.x,
     y          |-> flowerData.y,
     image_data |-> flowerData.imageData,
     created_by |-> flowerData.createdBy,
     created_at |-> now]

\* currentPlayer?.nickname || 'Guest'
CreatedByPayload(s, data) == data.createdBy

CreatedBy(s, data) == IF currentPlayer[s] # 0 THEN heap[currentPlayer[s]].nickname ELSE "Guest"

\* The flower broadcast sent with socket.broadcast.emit, skipping the sender.
PlaceEmitsToOthers(s, flower) == << Emit("flower:placed", ToOthers(s), flower) >>

\* io.emit('flower:placed', flower)
PlaceEmits(s, flower) == << Emit("flower:placed", ToAll, flower) >>

\* The broadcast counts bs after the emits es.
Counted(bs, es) ==
    [i \in 1..Len(bs) |->
        bs[i] + Len(SelectSeq(es, LAMBDA e : e.ev = "flower:placed" /\ e.payload.id = i))]

\* socket.on('flower:place'): createFlower runs up to its first await.  With
\* no backing store it pushes and returns at once and the broadcast follows
\* before any other event is dispatched; otherwise the handler is suspended
\* on the external insert.
FlowerPlace(s, data) ==
    /\ status[s] = "open"
    /\ nextFlowerId <= MaxFlowers
    /\ LET flower == NewFlower([x |-> data.x, y |-> data.y, imageData |-> data.imageData,
                                createdBy |-> CreatedBy(s, data)], nextFlowerId, events)
       IN  /\ nextFlowerId' = nextFlowerId + 1
           /\ IF ~supabaseConfigured
              THEN /\ inMemoryFlowers' = Append(inMemoryFlowers, flower)
                   /\ pending' = pending
                   /\ lastEmits' = PlaceEmits(s, flower)
              ELSE /\ inMemoryFlowers' = inMemoryFlowers
                   /\ pending' = pending \cup {[socket |-> s, data |-> data, flower |-> flower]}
                   /\ lastEmits' = << >>
           /\ broadcasts' = Counted(Append(broadcasts, 0), lastEmits')
    /\ lastEvent' = [type |-> "flower:place", socket |-> s, data |-> data]
    /\ UNCHANGED <<status, currentPlayer, players, heap, supabaseConfigured, dbFlowers>>

\* The external insert settles and the suspended handler resumes: the row on
\* success, the in-memory fallback on error; then the broadcast.
CreateFlowerSettled(op, ok) ==
    /\ op \in pending
    /\ pending' = pending \ {op}
    /\ IF ok
       THEN /\ dbFlowers' = Append(dbFlowers, op.flower)
            /\ inMemoryFlowers' = inMemoryFlowers
       ELSE /\ inMemoryFlowers' = Append(inMemoryFlowers, op.flower)
            /\ dbFlowers' = dbFlowers
    /\ lastEmits' = PlaceEmits(op.socket, op.flower)
    /\ broadcasts' = Counted(broadcasts, lastEmits')
    /\ lastEvent' = [type |-> "createFlower:settled", socket |-> op.socket,
                     data |-> op.data, flower |-> op.flower]
    /\ UNCHANGED <<status, currentPlayer, players, heap, supabaseConfigured, nextFlowerId>>

\* ------------------------------------------------------ client adapter

\* The methods class SocketClient defines.
SocketClientMethods ==
    {"connect", "disconnect", "sendPlayerMove", "sendFlowerPlaced", "requestFlowers",
     "getPlayerCount"}

\* Calling a property that is not a function raises a TypeError.
Throws(method) == method \notin SocketClientMethods

\* if (this.connected && this.socket)
CanSendUnflagged == socket # "null"

CanSend == connected /\ socket # "null"

\* A sender: emits ev once when connected, otherwise does nothing.
Sender(method, ev, arg) ==
    /\ lastCall' = [kind |-> "sender", method |-> method, wasConnected |-> connected,
                    threw |-> Throws(method),
                    emitted |-> IF ~Throws(method) /\ CanSend
                                THEN << [ev |-> ev, payload |-> arg] >> ELSE << >>]
    /\ firstSent' = IF ~Throws(method) /\ CanSend /\ firstSent = "none" THEN ev ELSE firstSent
    /\ UNCHANGED <<socket, connected, playerData, promise, hooks, dispatched>>

\* SocketClient.sendPlayerMove
SendPlayerMove(d) == Sender("sendPlayerMove", "player:move", d)

\* SocketClient.sendFlowerPlaced
SendFlowerPlaced(f) == Sender("sendFlowerPlaced", "flower:place", f)

\* SocketClient.requestFlowers
RequestFlowers == Sender("requestFlowers", "flowers:get", Null)

\* The CatSelector callback of setupUI: socketClient.sendCatUpdate({type, name})
CatSelected(catData) == Sender("sendCatUpdate", "player:cat", catData)

\* new Promise((resolve, reject) => ...): resolve() and reject() settle a
\* pending promise and do nothing to a settled one.
SettleAgain(p, outcome) == outcome

Settle(p, outcome) == IF p = "pending" THEN outcome ELSE p

\* SocketClient.connect: creates the socket and registers the listeners.
Connect(pd) ==
    /\ socket = "null"
    /\ socket' = "connecting"
    /\ playerData' = pd
    /\ promise' = "pending"
    /\ lastCall' = [kind |-> "connect", method |-> "connect", wasConnected |-> connected,
                    threw |-> FALSE, emitted |-> << >>]
    /\ firstSent' = "none"
    /\ dispatched' = FALSE
    /\ UNCHANGED <<connected, hooks>>

\* socket.on('connect'): also fired on every reconnection.
OnConnect ==
    /\ socket \in {"connecting", "disconnected"}
    /\ socket' = "connected"
    /\ connected' = TRUE
    /\ promise' = Settle(promise, "resolved")
    /\ lastCall' = [kind |-> "listener", method |-> "connect", wasConnected |-> connected,
                    threw |-> FALSE,
                    emitted |-> << [ev |-> "player:join", payload |-> playerData] >>]
    /\ firstSent' = IF firstSent = "none" THEN "player:join" ELSE firstSent
    /\ UNCHANGED <<playerData, hooks, dispatched>>

\* socket.on('disconnect')
OnDisconnect ==
    /\ socket = "connected"
    /\ socket' = "disconnected"
    /\ connected' = FALSE
    /\ lastCall' = [kind |-> "listener", method |-> "disconnect", wasConnected |-> connected,
                    threw |-> FALSE, emitted |-> << >>]
    /\ firstSent' = "none"
    /\ dispatched' = FALSE
    /\ UNCHANGED <<playerData, promise, hooks>>

\* socket.on('connect_error')
OnConnectError ==
    /\ socket \in {"connecting", "disconnected"}
    /\ promise' = Settle(promise, "rejected")
    /\ lastCall' = [kind |-> "listener", method |-> "connect_error",
                    wasConnected |-> connected, threw |-> FALSE, emitted |-> << >>]
    /\ UNCHANGED <<socket, connected, playerData, hooks, firstSent, dispatched>>

\* SocketClient.disconnect
ClientDisconnect ==
    /\ IF socket # "null"
       THEN socket' = "null" /\ connected' = FALSE
       ELSE UNCHANGED <<socket, connected>>
    /\ lastCall' = [kind |-> "disconnect", method |-> "disconnect",
                    wasConnected |-> connected, threw |-> FALSE, emitted |-> << >>]
    /\ firstSent' = "none"
    /\ dispatched' = FALSE
    /\ UNCHANGED <<playerData, promise, hooks>>

\* The callback properties: the seven of the constructor and the one that
\* setupNetworkCallbacks adds.
HookNames ==
    {"onPlayerJoin", "onPlayerLeave", "onPlayerMove", "onPlayersUpdate", "onFlowerPlaced",
     "onFlowersLoad", "onPlayerCountChange", "onPlayerCatUpdate"}

\* Handlers a caller may assign to a callback property.
Handlers == {1, 2}

\* The events the relay sends to a client.
InboundEvents ==
    {"players:current", "player:joined", "player:left", "player:moved",
     "player:cat:updated", "player:count", "flowers:all", "flower:placed"}

\* A payload the relay sends with each event.
InboundPayload(ev) ==
    CASE ev = "player:count" -> [count |-> 2]
      [] ev = "player:left" -> [id |-> "a"]
      [] ev = "player:cat:updated" -> [playerId |-> "a", cat |-> Tom]
      [] ev \in {"players:current", "flowers:all"} -> [list |-> << [id |-> "a"] >>]
      [] OTHER -> [id |-> "a", x |-> 1, y |-> 2]

\* SocketClient.getPlayerCount
GetPlayerCount == [count |-> 1]

\* The listeners connect() registers: for each event, the callback properties
\* its listener reads, in order, with the argument it passes. No listener is
\* registered for player:cat:updated.
Listeners(ev, payload) ==
    CASE ev = "players:current" -> << [hook |-> "onPlayersUpdate", arg |-> payload] >>
      [] ev = "player:joined" -> << [hook |-> "onPlayerJoin", arg |-> payload],
                                    [hook |-> "onPlayerCountChange", arg |-> GetPlayerCount] >>
      [] ev = "player:left" -> << [hook |-> "onPlayerLeave", arg |-> payload],
                                  [hook |-> "onPlayerCountChange", arg |-> GetPlayerCount] >>
      [] ev = "player:moved" -> << [hook |-> "onPlayerMove", arg |-> payload] >>
      [] ev = "flowers:all" -> << [hook |-> "onFlowersLoad", arg |-> payload] >>
      [] ev = "flower:placed" -> << [hook |-> "onFlowerPlaced", arg |-> payload] >>
      [] ev = "player:count" -> << [hook |-> "onPlayerCountChange", arg |-> payload] >>
      [] OTHER -> << >>

\* if (this.onX) { this.onX(arg) }
IsSet(c) == hooks[c.hook] # 0

Invoke(c) == [hook |-> c.hook, handler |-> hooks[c.hook], arg |-> c.arg]

Invoked(cs) == [i \in 1..Len(SelectSeq(cs, IsSet)) |-> Invoke(SelectSeq(cs, IsSet)[i])]

\* socketClient.onX = handler
SetHook(h, f) ==
    /\ hooks' = [hooks EXCEPT ![h] = f]
    /\ lastCall' = [kind |-> "sethook", method |-> h, wasConnected |-> connected,
                    threw |-> FALSE, emitted |-> << >>]
    /\ UNCHANGED <<socket, connected, playerData, promise, firstSent, dispatched>>

\* The transport delivers an event of the relay to the listeners.
Receive(ev, payload) ==
    /\ socket = "connected"
    /\ dispatched' = TRUE
    /\ lastCall' = [kind |-> "inbound", method |-> ev, wasConnected |-> connected,
                    threw |-> FALSE, emitted |-> << >>, payload |-> payload,
                    invoked |-> Invoked(Listeners(ev, payload))]
    /\ UNCHANGED <<socket, connected, playerData, promise, hooks, firstSent>>

\* -------------------------------------------------------------- game world

\* Lengths are counted in thousandths of a pixel, the resolution of the
\* diagonal factor 0.707.
Unit == 1000

Abs(n) == IF n < 0 THEN -n ELSE n

Max(a, b) == IF a > b THEN a ELSE b

Min(a, b) == IF a < b THEN a ELSE b

\* TILE_TYPES
GRASS == 0
PATH == 1
FLOWER_BED == 7
DENSE_TREE == 8
GRASS_DARK == 9
NumTileTypes == 12

WALKABLE_TILES == {GRASS, PATH, FLOWER_BED, GRASS_DARK}

FLOWER_ZONES == {GRASS, FLOWER_BED, GRASS_DARK}

\* GameMap constructor; the model's maps are a few tiles wide and high.
tileSize == 48
widthInTiles == 4
heightInTiles == 3

\* this.tiles[tileY][tileX]: generateMap lays the tiles out at random; the
\* model's layouts hold every tile type, one layout per seed, and seed 0 has
\* grass, path and dark grass around the origin.
Tiles(tileX, tileY) == (seed + tileX + 9 * tileY) % NumTileTypes

\* GameMap.getTile
GetTileUnchecked(tileX, tileY) == Tiles(tileX, tileY)

GetTile(tileX, tileY) ==
    IF tileX < 0 \/ tileX >= widthInTiles \/ tileY < 0 \/ tileY >= heightInTiles
    THEN DENSE_TREE
    ELSE Tiles(tileX, tileY)

\* GameMap.isWalkable
MapIsWalkable(tileX, tileY) == GetTile(tileX, tileY) \in WALKABLE_TILES

\* GameMap.isFlowerZone
MapIsFlowerZone(tileX, tileY) == GetTile(tileX, tileY) \in FLOWER_ZONES

\* Math.floor(x / this.map.tileSize)
TileOf(x) == x \div (tileSize * Unit)

\* Collision.isWalkable
IsWalkable(x, y) == MapIsWalkable(TileOf(x), TileOf(y))

\* Collision.canPlaceFlower
CanPlaceFlower(x, y) == MapIsFlowerZone(TileOf(x), TileOf(y))

\* Collision.isAreaWalkable: bottom-left, bottom-right and bottom-centre.
IsAreaWalkable(x, y, width, height) ==
    /\ IsWalkable(x + 4 * Unit, y + height - 4 * Unit)
    /\ IsWalkable(x + width - 4 * Unit, y + height - 4 * Unit)
    /\ IsWalkable(x + width \div 2, y + height - 4 * Unit)

\* GameMap constructor: this.width, this.height
MapWidth == widthInTiles * tileSize * Unit

MapHeight == heightInTiles * tileSize * Unit

\* collision.isWalkable(x, y), collision.canPlaceFlower(x, y) and
\* collision.getTileAt(x, y) at one world position
QueryCollision(x, y) ==
    /\ query' = [kind |-> "collision", x |-> x, y |-> y,
                 isWalkable |-> IsWalkable(x, y),
                 canPlaceFlower |-> CanPlaceFlower(x, y),
                 tile |-> GetTile(TileOf(x), TileOf(y))]
    /\ UNCHANGED <<seed, localPlayer, appended, frames, cat, camera, engineVars>>

\* ------------------------------------------------------------------ Camera

\* new Camera(viewportWidth, viewportHeight, worldWidth, worldHeight)
Camera(viewportWidth, viewportHeight, worldWidth, worldHeight) ==
    [x |-> 0, y |-> 0, targetX |-> 0, targetY |-> 0,
     viewportWidth |-> viewportWidth, viewportHeight |-> viewportHeight,
     worldWidth |-> worldWidth, worldHeight |-> worldHeight]

\* Math.max(0, Math.min(target, world - viewport))
ClampMinLast(target, limit) == Min(Max(0, target), limit)

Clamp(target, limit) == Max(0, Min(target, limit))

\* Camera.follow
Follow(cam, targetX, targetY) ==
    [cam EXCEPT !.targetX = Clamp(targetX - cam.viewportWidth \div 2,
                                  cam.worldWidth - cam.viewportWidth),
                !.targetY = Clamp(targetY - cam.viewportHeight \div 2,
                                  cam.worldHeight - cam.viewportHeight)]

\* camera.follow(x, y) on its own
QueryFollow(x, y) ==
    /\ query' = [kind |-> "follow", x |-> x, y |-> y]
    /\ camera' = Follow(camera, x, y)
    /\ UNCHANGED <<seed, localPlayer, appended, frames, cat, engineVars>>

\* ------------------------------------------------------------------ Player

\* DIRECTIONS
DOWN == 0
LEFT == 1
RIGHT == 2
UP == 3

\* Player constructor: this.speed, this.width, this.height, this.maxHistoryLength
speed == 4
playerWidth == 36
playerHeight == 48
maxHistoryLength == 30

\* new Player(id, nickname, x, y)
Player(id, nickname, x, y) ==
    [id |-> id, nickname |-> nickname, x |-> x, y |-> y, direction |-> DOWN,
     isMoving |-> FALSE, velocityX |-> 0, velocityY |-> 0, positionHistory |-> << >>]

\* Player.setVelocity
SetVelocityTieHorizontal(p, vx, vy) ==
    [p EXCEPT !.velocityX = vx,
              !.velocityY = vy,
              !.direction = IF Abs(vx) >= Abs(vy) /\ vx # 0
                            THEN (IF vx > 0 THEN RIGHT ELSE LEFT)
                            ELSE IF vy # 0 THEN (IF vy > 0 THEN DOWN ELSE UP)
                            ELSE @,
              !.isMoving = (vx # 0 \/ vy # 0)]

SetVelocity(p, vx, vy) ==
    [p EXCEPT !.velocityX = vx,
              !.velocityY = vy,
              !.direction = IF Abs(vx) > Abs(vy) THEN (IF vx > 0 THEN RIGHT ELSE LEFT)
                            ELSE IF vy # 0 THEN (IF vy > 0 THEN DOWN ELSE UP)
                            ELSE @,
              !.isMoving = (vx # 0 \/ vy # 0)]

\* { x: this.x, y: this.y, direction: this.direction }
Sample(p) == [x |-> p.x, y |-> p.y, direction |-> p.direction]

\* positionHistory.push(sample), then shift() when longer than maxHistoryLength
PushNoShift(h, s) == Append(h, s)

Push(h, s) == IF Len(h) + 1 > maxHistoryLength THEN Tail(Append(h, s)) ELSE Append(h, s)

\* Player.update, position: each axis is applied when the player's box at the
\* new coordinate is walkable, or always when there is no collision oracle.
MovedJointly(p, collision) ==
    LET newX == p.x + p.velocityX * speed
        newY == p.y + p.velocityY * speed
        w == playerWidth * Unit
        h == playerHeight * Unit
        free == ~collision \/ IsAreaWalkable(newX - w \div 2, newY - h \div 2, w, h)
    IN  IF free THEN [p EXCEPT !.x = newX, !.y = newY] ELSE p

Moved(p, collision) ==
    LET newX == p.x + p.velocityX * speed
        newY == p.y + p.velocityY * speed
        w == playerWidth * Unit
        h == playerHeight * Unit
        x1 == IF ~collision THEN newX
              ELSE IF p.velocityX # 0 /\ IsAreaWalkable(newX - w \div 2, p.y - h \div 2, w, h)
                   THEN newX ELSE p.x
        y1 == IF ~collision THEN newY
              ELSE IF p.velocityY # 0 /\ IsAreaWalkable(x1 - w \div 2, newY - h \div 2, w, h)
                   THEN newY ELSE p.y
    IN  [p EXCEPT !.x = x1, !.y = y1]

\* Player.update: position, then the position history.
Update(p, collision) ==
    LET q == Moved(p, collision)
    IN  IF q.isMoving
        THEN [q EXCEPT !.positionHistory = Push(@, Sample(q))]
        ELSE q

\* Player.getHistoricalPosition
GetHistoricalPosition(p, stepsBack) ==
    LET index == Max(0, Len(p.positionHistory) - 1 - stepsBack)
    IN  IF Len(p.positionHistory) > 0 THEN p.positionHistory[index + 1] ELSE Sample(p)

\* One more call in a long run.
MaxFrames == 34
Frame == frames < MaxFrames /\ frames' = frames + 1

\* Frames of a long run in which the player may still turn.
TurnFrames == 3

\* localPlayer.setVelocity(vx, vy)
PlayerSetVelocity(vx, vy) ==
    /\ localPlayer' = SetVelocity(localPlayer, vx, vy)
    /\ lastFrame' = [kind |-> "setVelocity", vx |-> vx, vy |-> vy]
    /\ UNCHANGED <<seed, appended, cat, query, camera, keys, handlers, placement,
                   mapFlowers, remotePlayers, catVars>>

\* localPlayer.update(deltaTime, collision)
PlayerUpdate(collision) ==
    /\ localPlayer' = Update(localPlayer, collision)
    /\ appended' = IF localPlayer.isMoving
                   THEN Append(appended, Sample(localPlayer')) ELSE appended
    /\ lastFrame' = [kind |-> "update", collision |-> collision]
    /\ UNCHANGED <<seed, cat, query, camera, keys, handlers, placement, mapFlowers,
                   remotePlayers, catVars>>

\* Player.deserialize
DeserializeWithVelocity(p, data) ==
    [p EXCEPT !.x = data.x, !.y = data.y, !.direction = data.direction,
              !.isMoving = data.isMoving,
              !.velocityX = IF data.isMoving THEN Unit ELSE 0]

Deserialize(p, data) ==
    [p EXCEPT !.x = data.x, !.y = data.y, !.direction = data.direction,
              !.isMoving = data.isMoving]

\* --------------------------------------------------------------------- Cat

\* A cat's coordinates are counted in tenths of a pixel, the resolution of
\* its speed 4.5.
CatUnit == 10

\* Cat constructor: this.speed (4.5), this.followDistance, this.sleepThreshold
catSpeed == 45
followDistance == 20
sleepThreshold == 10000

\* if (distance > 35)
nearDistance == 35

\* The largest r in lo..hi with r * r <= n.
RECURSIVE SqrtBetween(_, _, _)
SqrtBetween(n, lo, hi) ==
    IF lo >= hi THEN lo
    ELSE LET mid == (lo + hi + 1) \div 2
         IN  IF mid * mid <= n THEN SqrtBetween(n, mid, hi) ELSE SqrtBetween(n, lo, mid - 1)

\* Math.sqrt, rounded down to the cat's resolution.
Sqrt(n) == SqrtBetween(n, 0, 40000)

\* A coordinate of the owner at the cat's resolution.
ToCat(v) == v \div (Unit \div CatUnit)

\* new Cat(type, name, owner)
Cat(owner) ==
    [x |-> ToCat(owner.x) - 50 * CatUnit, y |-> ToCat(owner.y), direction |-> DOWN,
     isMoving |-> FALSE, isAwake |-> TRUE, idleTimer |-> 0]

\* targetPos = this.owner.getHistoricalPosition(this.followDistance)
Target(owner) ==
    [x |-> ToCat(GetHistoricalPosition(owner, followDistance).x),
     y |-> ToCat(GetHistoricalPosition(owner, followDistance).y)]

\* dx * dx + dy * dy from the cat to the target
Distance2(c, target) ==
    (target.x - c.x) * (target.x - c.x) + (target.y - c.y) * (target.y - c.y)

\* distance > 35
Far(c, target) == Distance2(c, target) > (nearDistance * CatUnit) * (nearDistance * CatUnit)

\* this.x += (dx / distance) * this.speed
StepAway(d, distance) == 0 - (d * catSpeed) \div distance

Step(d, distance) == (d * catSpeed) \div distance

\* this.idleTimer += deltaTime
IdleRestarted(idleTimer, deltaTime) == deltaTime

Idle(idleTimer, deltaTime) == idleTimer + deltaTime

\* Cat.update
UpdateCat(c, owner, deltaTime) ==
    LET target == Target(owner)
        dx == target.x - c.x
        dy == target.y - c.y
        distance == Sqrt(dx * dx + dy * dy)
    IN  IF Far(c, target)
        THEN [c EXCEPT !.isMoving = TRUE, !.isAwake = TRUE, !.idleTimer = 0,
                       !.x = @ + Step(dx, distance),
                       !.y = @ + Step(dy, distance),
                       !.direction = IF Abs(dx) > Abs(dy)
                                     THEN (IF dx > 0 THEN RIGHT ELSE LEFT)
                                     ELSE (IF dy > 0 THEN DOWN ELSE UP)]
        ELSE [c EXCEPT !.isMoving = FALSE,
                       !.idleTimer = Idle(@, deltaTime),
                       !.isAwake = IF Idle(c.idleTimer, deltaTime) >= sleepThreshold
                                   THEN FALSE ELSE @]

\* Frame deltas, and the idle time up to which a run is followed.
DeltaTimes == {0, 2500, 5000}
MaxIdle == 10000

\* cat.update(deltaTime) in a frame of the game loop
CatUpdate(deltaTime) ==
    /\ UpdateCat(cat, localPlayer, deltaTime).idleTimer <= MaxIdle
    /\ cat' = UpdateCat(cat, localPlayer, deltaTime)
    /\ UNCHANGED <<seed, localPlayer, appended, frames, query, camera, engineVars>>

\* Places the owner is reported at, and how often the owner changes in a run.
OwnerPlaces == {[x |-> 24 * Unit, y |-> 24 * Unit], [x |-> 114 * Unit, y |-> 144 * Unit]}
MaxOwnerMoves == 3

\* The owner is put at another place: owner.deserialize(data)
OwnerDeserialize(place, moving) ==
    /\ frames < MaxOwnerMoves
    /\ frames' = frames + 1
    /\ localPlayer' = Deserialize(localPlayer, [x |-> place.x, y |-> place.y,
                                                direction |-> RIGHT, isMoving |-> moving])
    /\ UNCHANGED <<seed, appended, cat, query, camera, engineVars>>

\* The owner's own frame: owner.update(deltaTime, null)
OwnerUpdate ==
    /\ frames < MaxOwnerMoves
    /\ frames' = frames + 1
    /\ localPlayer' = Update(localPlayer, FALSE)
    /\ UNCHANGED <<seed, appended, cat, query, camera, engineVars>>

\* ------------------------------------------------------------------ Engine

\* Camera.update: a tenth of the way to the target, to a thousandth of a pixel,
\* and onto the target when less than half a pixel remains.
SmoothedNoSnap(at, target) ==
    LET d == target - at
    IN  at + (IF d >= 0 THEN d \div 10 ELSE 0 - ((0 - d) \div 10))

Smoothed(at, target) ==
    LET d == target - at
        next == at + (IF d >= 0 THEN d \div 10 ELSE 0 - ((0 - d) \div 10))
    IN  IF 2 * Abs(target - next) < Unit THEN target ELSE next

UpdateCamera(cam) ==
    [cam EXCEPT !.x = Smoothed(@, cam.targetX), !.y = Smoothed(@, cam.targetY)]

\* camera.update() on its own
CameraUpdate ==
    /\ camera' = UpdateCamera(camera)
    /\ UNCHANGED <<seed, localPlayer, appended, frames, cat, query, engineVars>>

\* Camera.screenToWorld
ScreenToWorld(cam, screenX, screenY) == [x |-> screenX + cam.x, y |-> screenY + cam.y]

\* Engine.handleKeyDown / handleKeyUp for a direction key
KeyDown(k) ==
    /\ keys' = keys \cup {k}
    /\ lastFrame' = [kind |-> "key"]
    /\ UNCHANGED <<seed, localPlayer, appended, frames, cat, query, camera, handlers,
                   placement, mapFlowers, remotePlayers, catVars>>

KeyUp(k) ==
    /\ keys' = keys \ {k}
    /\ lastFrame' = [kind |-> "key"]
    /\ UNCHANGED <<seed, localPlayer, appended, frames, cat, query, camera, handlers,
                   placement, mapFlowers, remotePlayers, catVars>>

\* Engine.update: vx, vy from the keys, diagonals scaled by 0.707
KeyVelocity(held) ==
    LET vx == (IF "right" \in held THEN 1 ELSE 0) - (IF "left" \in held THEN 1 ELSE 0)
        vy == (IF "down" \in held THEN 1 ELSE 0) - (IF "up" \in held THEN 1 ELSE 0)
    IN  IF vx # 0 /\ vy # 0 THEN <<vx * 707, vy * 707>> ELSE <<vx * Unit, vy * Unit>>

\* Player.serialize
Serialize(p) ==
    [id |-> p.id, nickname |-> p.nickname, x |-> p.x, y |-> p.y,
     direction |-> p.direction, isMoving |-> p.isMoving]

\* this.owner of a cat: the Player object it was created with
OwnerObject(owner, rp) ==
    IF \E id \in DOMAIN playerObjects.of : playerObjects.of[id] = owner
    THEN rp[CHOOSE id \in DOMAIN playerObjects.of : playerObjects.of[id] = owner]
    ELSE playerObjects.kept[owner]

\* if (this.onPlayerMove && (this.localPlayer.isMoving || wasMoving))
BroadcastWhileMoving(isMoving, wasMoving) == isMoving

ShouldBroadcast(isMoving, wasMoving) == isMoving \/ wasMoving

\* Engine.update: one frame of the game loop.
EngineUpdate(deltaTime) ==
    LET v == KeyVelocity(keys)
        wasMoving == localPlayer.isMoving
        player == Update(SetVelocity(localPlayer, v[1], v[2]), TRUE)
    IN  /\ localPlayer' = player
        /\ appended' = IF player.isMoving THEN Append(appended, Sample(player)) ELSE appended
        /\ lastFrame' = [kind |-> "frame",
                         moves |-> IF "onPlayerMove" \in handlers
                                      /\ ShouldBroadcast(player.isMoving, wasMoving)
                                   THEN << Serialize(player) >> ELSE << >>]
        /\ camera' = UpdateCamera(Follow(camera, player.x, player.y))
        /\ cat' = UpdateCat(cat, player, deltaTime)
        /\ remotePlayers' = [id \in DOMAIN remotePlayers |-> Update(remotePlayers[id], FALSE)]
        /\ remoteCats' =
               [id \in DOMAIN remoteCats |->
                   [remoteCats[id] EXCEPT
                       !.body = UpdateCat(@, OwnerObject(remoteCats[id].owner, remotePlayers'),
                                          deltaTime)]]
        /\ UNCHANGED <<seed, frames, query, keys, handlers, placement, mapFlowers,
                       playerObjects>>

\* Engine.updateRemotePlayer: the map after the call
UpdatedPlayers(rp, data) ==
    [id \in DOMAIN rp \cup {data.id} |->
        IF id # data.id THEN rp[id]
        ELSE Deserialize(IF id \in DOMAIN rp THEN rp[id]
                         ELSE Player(data.id, data.nickname, data.x, data.y), data)]

\* Map.delete(id)
Delete(m, id) == [i \in DOMAIN m \ {id} |-> m[i]]

\* The removed Player objects that some cat still refers to.
Kept(cats, of, objects) ==
    [r \in ({cats[i].owner : i \in DOMAIN cats} \ {of[i] : i \in DOMAIN of})
              \cap DOMAIN objects |-> objects[r]]

\* Engine.updateRemotePlayer
UpdateRemotePlayer(data) ==
    LET isNew == data.id \notin DOMAIN remotePlayers
        created == playerObjects.created + (IF isNew THEN 1 ELSE 0)
    IN  /\ remotePlayers' = UpdatedPlayers(remotePlayers, data)
        /\ playerObjects' =
               [playerObjects EXCEPT
                   !.created = created,
                   !.of = [id \in DOMAIN remotePlayers' |->
                              IF id = data.id /\ isNew THEN created ELSE @[id]]]
        /\ lastFrame' = [kind |-> "remote", data |-> data]
        /\ UNCHANGED <<seed, localPlayer, appended, frames, cat, query, camera, keys,
                       handlers, placement, mapFlowers, remoteCats>>

\* removeRemotePlayer: this.remoteCats.delete(id)
KeepCat(cats, id) == cats

DeleteCat(cats, id) == Delete(cats, id)

\* Engine.removeRemotePlayer
RemoveRemotePlayer(id) ==
    LET objects == IF id \in DOMAIN remotePlayers
                   THEN playerObjects.kept @@ (playerObjects.of[id] :> remotePlayers[id])
                   ELSE playerObjects.kept
    IN  /\ remotePlayers' = Delete(remotePlayers, id)
        /\ remoteCats' = DeleteCat(remoteCats, id)
        /\ playerObjects' =
               [playerObjects EXCEPT
                   !.of = Delete(@, id),
                   !.kept = Kept(remoteCats', Delete(playerObjects.of, id), objects)]
        /\ lastFrame' = [kind |-> "removed", id |-> id]
        /\ UNCHANGED <<seed, localPlayer, appended, frames, cat, query, camera, keys,
                       handlers, placement, mapFlowers>>

\* Engine.updateRemotePlayerCat
UpdateRemotePlayerCat(playerId, catData) ==
    /\ remoteCats' =
           IF playerId \in DOMAIN remotePlayers /\ catData # Null
           THEN [id \in DOMAIN remoteCats \cup {playerId} |->
                    IF id # playerId THEN remoteCats[id]
                    ELSE [type |-> catData.type, name |-> catData.name,
                          owner |-> playerObjects.of[playerId],
                          body |-> Cat(remotePlayers[playerId])]]
           ELSE IF catData = Null THEN Delete(remoteCats, playerId)
           ELSE remoteCats
    /\ playerObjects' =
           [playerObjects EXCEPT !.kept = Kept(remoteCats', playerObjects.of, @)]
    /\ lastFrame' = [kind |-> "remoteCat", id |-> playerId, cat |-> catData]
    /\ UNCHANGED <<seed, localPlayer, appended, frames, cat, query, camera, keys, handlers,
                   placement, mapFlowers, remotePlayers>>

\* Engine.startFlowerPlacement
StartFlowerPlacement(imageData) ==
    /\ placement' = [mode |-> TRUE, pending |-> imageData]
    /\ lastFrame' = [kind |-> "start"]
    /\ UNCHANGED <<seed, localPlayer, appended, frames, cat, query, camera, keys, handlers,
                   mapFlowers, remotePlayers, catVars>>

\* The flower object that Engine.placeFlower builds; there is a local player.
Flower(x, y, imageData) ==
    [x |-> x, y |-> y, imageData |-> imageData, createdBy |-> localPlayer.nickname]

\* GameMap.addFlower: a record in the store's snake_case gets imageData and
\* createdBy as well
Normalized(flower) ==
    LET withImage == IF "image_data" \in DOMAIN flower /\ "imageData" \notin DOMAIN flower
                     THEN [imageData |-> flower.image_data] @@ flower ELSE flower
    IN  IF "created_by" \in DOMAIN withImage /\ "createdBy" \notin DOMAIN withImage
        THEN [createdBy |-> withImage.created_by] @@ withImage ELSE withImage

AddFlower(flowers, flower) == Append(flowers, Normalized(flower))

\* handleClick after placeFlower: flowerPlacementMode = false, pendingFlower = null
StillArmed(pl) == pl

Disarmed(pl) == [mode |-> FALSE, pending |-> Null]

\* Engine.handleClick with Engine.placeFlower, at a canvas position.
HandleClick(screenX, screenY) ==
    LET worldPos == ScreenToWorld(camera, screenX, screenY)
        flower == Flower(worldPos.x, worldPos.y, placement.pending)
        places == /\ placement.mode /\ placement.pending # Null
                  /\ CanPlaceFlower(worldPos.x, worldPos.y)
    IN  /\ mapFlowers' = IF places THEN AddFlower(mapFlowers, flower) ELSE mapFlowers
        /\ placement' = IF places THEN Disarmed(placement) ELSE placement
        /\ lastFrame' = [kind |-> "click", x |-> screenX, y |-> screenY,
                         placed |-> IF places /\ "onFlowerPlaced" \in handlers
                                    THEN << flower >> ELSE << >>]
        /\ UNCHANGED <<seed, localPlayer, appended, frames, cat, query, camera, keys,
                       handlers, remotePlayers, catVars>>

\* The Escape key: game.flowerPlacementMode = false
Escape ==
    /\ placement' = [placement EXCEPT !.mode = FALSE]
    /\ lastFrame' = [kind |-> "escape"]
    /\ UNCHANGED <<seed, localPlayer, appended, frames, cat, query, camera, keys, handlers,
                   mapFlowers, remotePlayers, catVars>>

\* ------------------------------------------------- relay and its clients

\* The events of emits es that go to connection q, appended to its queue.
Delivered(dl, es) ==
    [q \in DOMAIN dl |-> dl[q] \o SelectSeq(es, LAMBDA e : q \in e.to)]

\* startGame: the playerData of socketClient.connect
JoinData(s) ==
    [id |-> clients[s].id, nickname |-> "Ann", x |-> s, y |-> 2,
     cat |-> IF s = 1 THEN Tom ELSE Null]

\* The transport connects: io.on('connection') at the relay, and the client's
\* connect listener sets the flag and emits player:join. The flowers:get that
\* startGame sends next, and its flowers:all reply, are left out: a client's
\* list holds what was placed or broadcast since it connected, not the
\* flowers stored before.
GardenConnect(s) ==
    /\ Connection(s)
    /\ clients' = [clients EXCEPT ![s].connected = TRUE, ![s].sent = JoinData(s)]
    /\ uplink' = [uplink EXCEPT ![s] = << [ev |-> "player:join", payload |-> JoinData(s)] >>]
    /\ UNCHANGED <<downlink, flowerVars>>

\* The relay handles the next event of connection s and its emits go out.
GardenRelay(s) ==
    /\ uplink[s] # << >>
    /\ LET m == Head(uplink[s])
       IN  CASE m.ev = "player:join" -> PlayerJoin(s, m.payload) /\ UNCHANGED flowerVars
             [] m.ev = "player:move" -> PlayerMove(s, m.payload) /\ UNCHANGED flowerVars
             [] m.ev = "flower:place" -> FlowerPlace(s, m.payload)
    /\ uplink' = [uplink EXCEPT ![s] = Tail(@)]
    /\ downlink' = Delivered(downlink, lastEmits')
    /\ UNCHANGED clients

\* The external insert of a flower settles and the broadcast goes out.
GardenSettled(op, ok) ==
    /\ CreateFlowerSettled(op, ok)
    /\ downlink' = Delivered(downlink, lastEmits')
    /\ UNCHANGED <<clients, uplink>>

\* setupNetworkCallbacks, onPlayersUpdate / onPlayerJoin for one player:
\* updateRemotePlayer, and updateRemotePlayerCat if the player has a cat.
WithPlayer(c, player) ==
    [c EXCEPT !.remote = UpdatedPlayers(@, player),
              !.cats = IF player.cat # Null
                       THEN [id \in DOMAIN @ \cup {player.id} |->
                                IF id = player.id THEN player.cat ELSE @[id]]
                       ELSE @]

RECURSIVE WithPlayers(_, _)
WithPlayers(c, list) ==
    IF list = << >> THEN c ELSE WithPlayers(WithPlayer(c, Head(list)), Tail(list))

\* The listeners with player:left ignored.
HandledWithoutLeave(c, m) ==
    CASE m.ev = "players:current" -> WithPlayers(c, m.payload)
      [] m.ev = "player:joined" -> WithPlayer(c, m.payload)
      [] m.ev = "player:moved" -> [c EXCEPT !.remote = UpdatedPlayers(@, m.payload)]
      [] m.ev = "flower:placed" -> [c EXCEPT !.flowers = AddFlower(@, m.payload)]
      [] OTHER -> c

\* The client's listener for an event of the relay, with the callback that
\* setupNetworkCallbacks assigned.
Handled(c, m) ==
    CASE m.ev = "players:current" -> WithPlayers(c, m.payload)
      [] m.ev = "player:joined" -> WithPlayer(c, m.payload)
      [] m.ev = "player:left" ->
            [c EXCEPT !.remote = Delete(@, m.payload), !.cats = Delete(@, m.payload)]
      [] m.ev = "player:moved" -> [c EXCEPT !.remote = UpdatedPlayers(@, m.payload)]
      [] m.ev = "flower:placed" -> [c EXCEPT !.flowers = AddFlower(@, m.payload)]
      [] OTHER -> c

\* A client handles the next event the relay sent it.
GardenClient(s) ==
    /\ downlink[s] # << >>
    /\ clients' = [clients EXCEPT ![s] = Handled(@, Head(downlink[s]))]
    /\ downlink' = [downlink EXCEPT ![s] = Tail(@)]
    /\ UNCHANGED <<relayVars, lastEvent, lastEmits, flowerVars, uplink>>

\* Engine.update reports a move of the local player: sendPlayerMove.
GardenMove(s, d) ==
    /\ clients[s].connected
    /\ LET data == [id |-> clients[s].id, nickname |-> "Ann", x |-> d.x, y |-> d.y,
                    direction |-> d.direction, isMoving |-> d.isMoving]
       IN  /\ uplink' = [uplink EXCEPT ![s] = Append(@, [ev |-> "player:move", payload |-> data])]
           /\ clients' = [clients EXCEPT ![s].sent = data]
    /\ UNCHANGED <<relayVars, lastEvent, lastEmits, flowerVars, downlink>>

\* Engine.placeFlower on a connected client: map.addFlower and sendFlowerPlaced.
GardenPlace(s, f) ==
    /\ clients[s].connected
    /\ Len(clients[s].flowers) < MaxFlowers
    /\ clients' = [clients EXCEPT ![s].flowers = AddFlower(@, f), ![s].placed = @ + 1]
    /\ uplink' = [uplink EXCEPT ![s] = Append(@, [ev |-> "flower:place", payload |-> f])]
    /\ UNCHANGED <<relayVars, lastEvent, lastEmits, flowerVars, downlink>>

\* The transport of connection s closes: the relay's disconnect handler runs,
\* the client's disconnect listener clears the flag, and what was in flight on
\* the connection is lost.
GardenDisconnect(s) ==
    /\ Disconnect(s)
    /\ clients' = [clients EXCEPT ![s].connected = FALSE]
    /\ uplink' = [uplink EXCEPT ![s] = << >>]
    /\ downlink' = Delivered([downlink EXCEPT ![s] = << >>], lastEmits')
    /\ UNCHANGED flowerVars

\* ------------------------------------------------------------ specification

InitRelay ==
    /\ status = [s \in Sockets |-> "new"]
    /\ currentPlayer = [s \in Sockets |-> 0]
    /\ players = << >>
    /\ heap = << >>
    /\ lastEvent = [type |-> "none"]
    /\ lastEmits = << >>
    /\ events = 0

InitFlowerStore ==
    /\ inMemoryFlowers = << >>
    /\ dbFlowers = << >>
    /\ pending = {}
    /\ nextFlowerId = 1
    /\ broadcasts = << >>

InitClient ==
    /\ socket = "null"
    /\ connected = FALSE
    /\ playerData = Null
    /\ promise = "none"
    /\ lastCall = [kind |-> "none"]
    /\ hooks = [h \in HookNames |-> 0]
    /\ firstSent = "none"
    /\ dispatched = FALSE

\* No browser has opened the garden yet; the browsers of the connections hold
\* the player ids "a", "b", ... in their storage.
StoredIds == <<"a", "b", "c", "d", "e">>

\* A browser's game: its player id, the adapter's flag, the engine's remote
\* players and cats, the map's flowers; and, for the record, how many flowers
\* its user has placed and the last join or move it sent.
NewClient(id) ==
    [id |-> id, connected |-> FALSE, remote |-> << >>, cats |-> << >>, flowers |-> << >>,
     placed |-> 0, sent |-> Null]

InitGarden ==
    /\ clients = [s \in Sockets |-> NewClient(StoredIds[s])]
    /\ uplink = [s \in Sockets |-> << >>]
    /\ downlink = [s \in Sockets |-> << >>]

\* The engine once startGame has installed its callbacks.
InitEngine ==
    /\ keys = {}
    /\ handlers = {"onPlayerMove", "onFlowerPlaced"}
    /\ placement = [mode |-> FALSE, pending |-> Null]
    /\ mapFlowers = << >>
    /\ remotePlayers = << >>
    /\ remoteCats = << >>
    /\ playerObjects = [created |-> 0, of |-> << >>, kept |-> << >>]
    /\ lastFrame = [kind |-> "none"]

InitGame ==
    /\ InitEngine
    /\ seed = 0
    /\ localPlayer = Player("a", "Ann", 24 * Unit, 24 * Unit)
    /\ appended = << >>
    /\ frames = 0
    /\ cat = Cat(localPlayer)
    /\ query = [kind |-> "none"]
    /\ camera = Camera(MapWidth \div 2, MapHeight \div 2, MapWidth, MapHeight)

\* One more event is handled.
Handle == events < MaxEvents /\ events' = events + 1

\* The relay's player protocol, with the flower store left alone.
Init == InitRelay /\ InitFlowerStore /\ InitClient /\ InitGarden /\ InitGame /\ supabaseConfigured = FALSE

Next ==
    \/ \E s \in Sockets : Handle /\ Connection(s) /\ UNCHANGED <<flowerVars, clientVars, gameVars, gardenVars>>
    \/ \E s \in Sockets, d \in JoinPayloads :
          Handle /\ PlayerJoin(s, d) /\ UNCHANGED <<flowerVars, clientVars, gameVars, gardenVars>>
    \/ \E s \in Sockets, c \in CatPayloads :
          Handle /\ PlayerCat(s, c) /\ UNCHANGED <<flowerVars, clientVars, gameVars, gardenVars>>
    \/ \E s \in Sockets, d \in MovePayloads :
          Handle /\ PlayerMove(s, d) /\ UNCHANGED <<flowerVars, clientVars, gameVars, gardenVars>>
    \/ \E s \in Sockets : Handle /\ Disconnect(s) /\ UNCHANGED <<flowerVars, clientVars, gameVars, gardenVars>>

Spec == Init /\ [][Next]_vars

\* The relay's flower protocol: connections join and leave while flowers are
\* placed, with or without the external backing store.
InitFlowers ==
    InitRelay /\ InitFlowerStore /\ InitClient /\ InitGarden /\ InitGame /\ supabaseConfigured \in BOOLEAN

NextFlowers ==
    \/ \E s \in Sockets : Handle /\ Connection(s) /\ UNCHANGED <<flowerVars, clientVars, gameVars, gardenVars>>
    \/ \E s \in Sockets, d \in FlowerJoinPayloads :
          Handle /\ PlayerJoin(s, d) /\ UNCHANGED <<flowerVars, clientVars, gameVars, gardenVars>>
    \/ \E s \in Sockets : Handle /\ Disconnect(s) /\ UNCHANGED <<flowerVars, clientVars, gameVars, gardenVars>>
    \/ \E s \in Sockets, d \in FlowerPayloads :
          Handle /\ FlowerPlace(s, d) /\ UNCHANGED <<clientVars, gameVars, gardenVars>>
    \/ \E op \in pending, ok \in BOOLEAN :
          Handle /\ CreateFlowerSettled(op, ok) /\ UNCHANGED <<clientVars, gameVars, gardenVars>>

SpecFlowers == InitFlowers /\ [][NextFlowers]_vars

\* Joins under two nicknames and without one, and flower:place payloads that
\* differ only in createdBy.
CreatorJoinPayloads ==
    {[id |-> "a", nickname |-> "Ann", x |-> 1, y |-> 2, cat |-> Null],
     [id |-> "a", nickname |-> "Bea", x |-> 1, y |-> 2, cat |-> Null],
     [id |-> "b"]}

CreatorPayloads ==
    {[x |-> 5, y |-> 5, imageData |-> "X", createdBy |-> "Ann"],
     [x |-> 5, y |-> 5, imageData |-> "X", createdBy |-> "Mallory"]}

MaxCreator == 6

\* Connections join, join again under another nickname, and place flowers.
NextCreator ==
    \/ \E s \in Sockets :
          /\ events < MaxCreator /\ events' = events + 1
          /\ Connection(s) /\ UNCHANGED <<flowerVars, clientVars, gameVars, gardenVars>>
    \/ \E s \in Sockets, d \in CreatorJoinPayloads :
          /\ events < MaxCreator /\ events' = events + 1
          /\ PlayerJoin(s, d) /\ UNCHANGED <<flowerVars, clientVars, gameVars, gardenVars>>
    \/ \E s \in Sockets, d \in CreatorPayloads :
          /\ events < MaxCreator /\ events' = events + 1
          /\ FlowerPlace(s, d) /\ UNCHANGED <<clientVars, gameVars, gardenVars>>
    \/ \E op \in pending, ok \in BOOLEAN :
          /\ events < MaxCreator /\ events' = events + 1
          /\ CreateFlowerSettled(op, ok) /\ UNCHANGED <<clientVars, gameVars, gardenVars>>

SpecCreator == InitFlowers /\ [][NextCreator]_vars

\* The garden: browsers connect to the relay and join, move, and leave. Two
\* tabs of one browser share the stored player id. The events of the users
\* are counted; the handling of what is in flight is not.
Clients == {1, 2}

MaxGarden == 5

InitGardenIds ==
    /\ InitRelay /\ InitFlowerStore /\ InitClient /\ InitGame
    /\ \E ids \in [Clients -> {"a", "b", "c", "d"}] :
          /\ \A s \in Clients : ids[s] \in {"a", StoredIds[s]}
          /\ clients = [s \in Sockets |-> NewClient(IF s \in Clients THEN ids[s]
                                                    ELSE StoredIds[s])]
    /\ uplink = [s \in Sockets |-> << >>]
    /\ downlink = [s \in Sockets |-> << >>]

UserEvent == events < MaxGarden /\ events' = events + 1

NextGarden ==
    \/ \E s \in Clients : UserEvent /\ GardenConnect(s) /\ UNCHANGED <<clientVars, gameVars>>
    \/ \E s \in Clients : GardenRelay(s) /\ UNCHANGED <<events, clientVars, gameVars>>
    \/ \E s \in Clients : GardenClient(s) /\ UNCHANGED <<events, clientVars, gameVars>>
    \/ \E s \in Clients, d \in MovePayloads :
          UserEvent /\ GardenMove(s, d) /\ UNCHANGED <<clientVars, gameVars>>
    \/ \E s \in Clients : UserEvent /\ GardenDisconnect(s) /\ UNCHANGED <<clientVars, gameVars>>

\* The relay of the garden's players keeps its flowers in memory.
InitGardenPlayers == InitGardenIds /\ supabaseConfigured = FALSE

SpecGarden == InitGardenPlayers /\ [][NextGarden]_vars

\* The garden's flowers: connected browsers place flowers, with or without
\* the external store.
GardenFlowers ==
    {[x |-> 5, y |-> 5, imageData |-> "X", createdBy |-> "Ann"]}

MaxPlacing == 3

PlacingEvent == events < MaxPlacing /\ events' = events + 1

NextGardenFlowers ==
    \/ \E s \in Clients : PlacingEvent /\ GardenConnect(s) /\ UNCHANGED <<clientVars, gameVars>>
    \/ \E s \in Clients : GardenRelay(s) /\ UNCHANGED <<events, clientVars, gameVars>>
    \/ \E s \in Clients : GardenClient(s) /\ UNCHANGED <<events, clientVars, gameVars>>
    \/ \E s \in Clients, f \in GardenFlowers :
          PlacingEvent /\ GardenPlace(s, f) /\ UNCHANGED <<clientVars, gameVars>>
    \/ \E op \in pending, ok \in BOOLEAN :
          GardenSettled(op, ok) /\ UNCHANGED <<events, clientVars, gameVars>>

InitGardenFlowers == InitGardenIds /\ supabaseConfigured \in BOOLEAN

SpecGardenFlowers == InitGardenFlowers /\ [][NextGardenFlowers]_vars

\* The client adapter alone, driven by its callers and by transport events.
NextClient ==
    \/ \E pd \in JoinPayloads : Handle /\ Connect(pd) /\ UNCHANGED <<relayVars, lastEvent, lastEmits, flowerVars, gameVars, gardenVars>>
    \/ Handle /\ OnConnect /\ UNCHANGED <<relayVars, lastEvent, lastEmits, flowerVars, gameVars, gardenVars>>
    \/ Handle /\ OnDisconnect /\ UNCHANGED <<relayVars, lastEvent, lastEmits, flowerVars, gameVars, gardenVars>>
    \/ Handle /\ OnConnectError /\ UNCHANGED <<relayVars, lastEvent, lastEmits, flowerVars, gameVars, gardenVars>>
    \/ Handle /\ ClientDisconnect /\ UNCHANGED <<relayVars, lastEvent, lastEmits, flowerVars, gameVars, gardenVars>>
    \/ \E d \in MovePayloads :
          Handle /\ SendPlayerMove(d) /\ UNCHANGED <<relayVars, lastEvent, lastEmits, flowerVars, gameVars, gardenVars>>
    \/ \E f \in FlowerPayloads :
          Handle /\ SendFlowerPlaced(f) /\ UNCHANGED <<relayVars, lastEvent, lastEmits, flowerVars, gameVars, gardenVars>>
    \/ Handle /\ RequestFlowers /\ UNCHANGED <<relayVars, lastEvent, lastEmits, flowerVars, gameVars, gardenVars>>
    \/ \E c \in {Tom} :
          Handle /\ CatSelected(c) /\ UNCHANGED <<relayVars, lastEvent, lastEmits, flowerVars, gameVars, gardenVars>>
    \/ \E ev \in InboundEvents :
          Handle /\ Receive(ev, InboundPayload(ev)) /\ UNCHANGED <<relayVars, lastEvent, lastEmits, flowerVars, gameVars, gardenVars>>

SpecClient == Init /\ [][NextClient]_vars

\* The adapter's dispatch of inbound events to the callback properties.
NextDispatch ==
    \/ \E pd \in {Null} : Handle /\ Connect(pd) /\ UNCHANGED <<relayVars, lastEvent, lastEmits, flowerVars, gameVars, gardenVars>>
    \/ Handle /\ OnConnect /\ UNCHANGED <<relayVars, lastEvent, lastEmits, flowerVars, gameVars, gardenVars>>
    \/ \E h \in HookNames, f \in Handlers :
          Handle /\ SetHook(h, f) /\ UNCHANGED <<relayVars, lastEvent, lastEmits, flowerVars, gameVars, gardenVars>>
    \/ \E ev \in InboundEvents :
          Handle /\ Receive(ev, InboundPayload(ev)) /\ UNCHANGED <<relayVars, lastEvent, lastEmits, flowerVars, gameVars, gardenVars>>

SpecDispatch == Init /\ [][NextDispatch]_vars

\* The velocities a long run draws from: rest and rightwards, and in its first
\* frames also downwards and diagonally up-left.
Velocities ==
    {<<0, 0>>, <<Unit, 0>>}
        \cup (IF frames < TurnFrames THEN {<<0, Unit>>, <<-707, -707>>} ELSE {})

\* A long run of setVelocity and update calls on one player, without a
\* collision oracle.
NextHistory ==
    \/ \E v \in Velocities : Frame /\ PlayerSetVelocity(v[1], v[2]) /\ UNCHANGED netVars
    \/ Frame /\ PlayerUpdate(FALSE) /\ UNCHANGED netVars

SpecHistory == Init /\ [][NextHistory]_vars

\* World coordinates on and off the map: quarter tiles from more than a tile
\* before the origin to more than a tile past the far edge, and the positions
\* next to the edges.
Coordinates(size) ==
    {k * (tileSize \div 4) * Unit : k \in -5..((size \div (tileSize * Unit)) * 4 + 5)}
        \cup {-1, size - 1, size + 1, -1 - tileSize * Unit}

\* The collision oracle on a map laid out at random.
InitCollision ==
    /\ InitRelay /\ InitFlowerStore /\ InitClient /\ InitGarden /\ supabaseConfigured = FALSE
    /\ InitEngine
    /\ seed \in 0..(NumTileTypes - 1)
    /\ localPlayer = Player("a", "Ann", 24 * Unit, 24 * Unit)
    /\ appended = << >>
    /\ frames = 0
    /\ cat = Cat(localPlayer)
    /\ query = [kind |-> "none"]
    /\ camera = Camera(MapWidth \div 2, MapHeight \div 2, MapWidth, MapHeight)

\* One position is asked for on each map.
NextCollision ==
    \E x \in Coordinates(MapWidth), y \in Coordinates(MapHeight) :
        query.kind = "none" /\ QueryCollision(x, y) /\ UNCHANGED netVars

SpecCollision == InitCollision /\ [][NextCollision]_vars

\* Viewports narrower and wider, lower and higher than the world: the window
\* of the browser against the map.
Viewports ==
    {[width |-> w, height |-> h] :
        w \in {MapWidth \div 2, MapWidth, MapWidth + 57 * Unit},
        h \in {MapHeight \div 2, MapHeight + 33 * Unit}}

InitCamera ==
    /\ InitRelay /\ InitFlowerStore /\ InitClient /\ InitGarden /\ supabaseConfigured = FALSE
    /\ InitEngine
    /\ seed = 0
    /\ localPlayer = Player("a", "Ann", 24 * Unit, 24 * Unit)
    /\ appended = << >>
    /\ frames = 0
    /\ cat = Cat(localPlayer)
    /\ query = [kind |-> "none"]
    /\ \E v \in Viewports : camera = Camera(v.width, v.height, MapWidth, MapHeight)

\* The camera is pointed at one position in each window.
NextCamera ==
    \E x \in Coordinates(MapWidth), y \in Coordinates(MapHeight) :
        query.kind = "none" /\ QueryFollow(x, y) /\ UNCHANGED netVars

SpecCamera == InitCamera /\ [][NextCamera]_vars

\* The direction keys.
Keys == {"up", "down", "left", "right"}

\* Inputs of setVelocity: the engine's unit and diagonal velocities, and
\* velocities of unequal size on both axes; and the calls made in one run.
VelocityInputs == {-2 * Unit, 0 - Unit, -707, 0, 707, Unit, 2 * Unit}

MaxCalls == 3

\* setVelocity called on one player with any inputs.
NextSetVelocity ==
    \E vx \in VelocityInputs, vy \in VelocityInputs :
        /\ events < MaxCalls /\ events' = events + 1
        /\ PlayerSetVelocity(vx, vy) /\ UNCHANGED <<frames, netVarsNoEvents>>

SpecSetVelocity == Init /\ [][NextSetVelocity]_vars

\* Spawn positions: the centre of a walkable tile.
SpawnPositions ==
    {[x |-> tileX * tileSize * Unit + (tileSize * Unit) \div 2,
      y |-> tileY * tileSize * Unit + (tileSize * Unit) \div 2] :
        tileX \in 0..(widthInTiles - 1), tileY \in 0..(heightInTiles - 1)}

InitWalk ==
    /\ InitRelay /\ InitFlowerStore /\ InitClient /\ InitGarden /\ supabaseConfigured = FALSE
    /\ InitEngine
    /\ seed \in 0..(NumTileTypes - 1)
    /\ \E s \in SpawnPositions :
          /\ MapIsWalkable(TileOf(s.x), TileOf(s.y))
          /\ localPlayer = Player("a", "Ann", s.x, s.y)
    /\ appended = << >>
    /\ frames = 0
    /\ cat = Cat(localPlayer)
    /\ query = [kind |-> "none"]
    /\ camera = Camera(MapWidth \div 2, MapHeight \div 2, MapWidth, MapHeight)

\* The velocities the engine gives the local player.
WalkVelocities == {KeyVelocity(held) : held \in SUBSET Keys}

MaxWalk == 6

\* The local player walks on the map: setVelocity and update with the
\* collision oracle.
NextWalk ==
    \/ \E v \in WalkVelocities :
          /\ events < MaxWalk /\ events' = events + 1
          /\ PlayerSetVelocity(v[1], v[2]) /\ UNCHANGED <<frames, netVarsNoEvents>>
    \/ /\ events < MaxWalk /\ events' = events + 1
       /\ PlayerUpdate(TRUE) /\ UNCHANGED <<frames, netVarsNoEvents>>

SpecWalk == InitWalk /\ [][NextWalk]_vars

\* Where the camera is and where it has been pointed when the target is held.
CameraPlaces == {0, 300, 12345, 37300, 96 * Unit}

InitSmooth ==
    /\ InitRelay /\ InitFlowerStore /\ InitClient /\ InitGarden /\ supabaseConfigured = FALSE
    /\ InitEngine
    /\ seed = 0
    /\ localPlayer = Player("a", "Ann", 24 * Unit, 24 * Unit)
    /\ appended = << >>
    /\ frames = 0
    /\ cat = Cat(localPlayer)
    /\ query = [kind |-> "none"]
    /\ \E x \in CameraPlaces, targetX \in CameraPlaces, targetY \in {0, 48 * Unit} :
          camera = [Camera(MapWidth \div 2, MapHeight \div 2, MapWidth, MapHeight)
                       EXCEPT !.x = x, !.y = 0, !.targetX = targetX, !.targetY = targetY]

\* The camera is updated frame after frame and its target is left alone.
NextSmooth == CameraUpdate /\ UNCHANGED netVars

SpecSmooth == InitSmooth /\ [][NextSmooth]_vars

\* The game loop keeps running: requestAnimationFrame after every frame.
SpecSmoothLive == SpecSmooth /\ WF_vars(NextSmooth)

\* The frame delta of the game loop and the messages about remote players: at
\* rest inside a house, and walking off the map.
FrameDelta == 16

RemoteMoves ==
    {[id |-> "b", nickname |-> "Bob", x |-> 120 * Unit, y |-> 24 * Unit,
      direction |-> DOWN, isMoving |-> FALSE],
     [id |-> "b", nickname |-> "Bob", x |-> -30 * Unit, y |-> 200 * Unit,
      direction |-> LEFT, isMoving |-> TRUE]}

\* The simulation loop of one client: keys, frames and remote players.
NextEngine ==
    \/ \E k \in Keys \ keys : Handle /\ KeyDown(k) /\ UNCHANGED netVarsNoEvents
    \/ \E k \in keys : Handle /\ KeyUp(k) /\ UNCHANGED netVarsNoEvents
    \/ Handle /\ EngineUpdate(FrameDelta) /\ UNCHANGED netVarsNoEvents
    \/ \E d \in RemoteMoves : Handle /\ UpdateRemotePlayer(d) /\ UNCHANGED netVarsNoEvents
    \/ \E id \in DOMAIN remotePlayers :
          Handle /\ RemoveRemotePlayer(id) /\ UNCHANGED netVarsNoEvents

SpecEngine == Init /\ [][NextEngine]_vars

\* Messages about two remote players and their cats.
RemotePlayerData ==
    RemoteMoves \cup
        {[id |-> "c", nickname |-> "Cy", x |-> 72 * Unit, y |-> 24 * Unit,
          direction |-> UP, isMoving |-> FALSE]}

RemoteCatData == {Null, [type |-> "tabby", name |-> "Tom"], [type |-> "calico", name |-> "Kit"]}

MaxRemote == 6

\* Remote players and their cats on one client: updates, removals and frames.
NextRemote ==
    \/ \E d \in RemotePlayerData :
          /\ events < MaxRemote /\ events' = events + 1
          /\ UpdateRemotePlayer(d) /\ UNCHANGED netVarsNoEvents
    \/ \E id \in {"b", "c"}, c \in RemoteCatData :
          /\ events < MaxRemote /\ events' = events + 1
          /\ UpdateRemotePlayerCat(id, c) /\ UNCHANGED netVarsNoEvents
    \/ \E id \in {"b", "c"} :
          /\ events < MaxRemote /\ events' = events + 1
          /\ RemoveRemotePlayer(id) /\ UNCHANGED netVarsNoEvents
    \/ /\ events < MaxRemote /\ events' = events + 1
       /\ EngineUpdate(FrameDelta) /\ UNCHANGED netVarsNoEvents

SpecRemote == Init /\ [][NextRemote]_vars

\* Drawn flowers, canvas positions of clicks, places the camera has scrolled
\* to, and the number of user actions in one run.
Images == {[dataURL |-> "flower1"], [dataURL |-> "flower2"]}

ClickPositions == {<<5 * Unit, 5 * Unit>>, <<50 * Unit, 5 * Unit>>,
                   <<30 * Unit, 60 * Unit>>, <<90 * Unit, 40 * Unit>>}

Scrolls == {<<0, 0>>, <<40 * Unit, 20 * Unit>>}

MaxClicks == 4

UserAction == events < MaxClicks /\ events' = events + 1

InitPlacement ==
    /\ InitRelay /\ InitFlowerStore /\ InitClient /\ InitGarden /\ supabaseConfigured = FALSE
    /\ InitEngine
    /\ seed \in 0..(NumTileTypes - 1)
    /\ localPlayer = Player("a", "Ann", 24 * Unit, 24 * Unit)
    /\ appended = << >>
    /\ frames = 0
    /\ cat = Cat(localPlayer)
    /\ query = [kind |-> "none"]
    /\ \E s \in Scrolls :
          camera = [Camera(MapWidth \div 2, MapHeight \div 2, MapWidth, MapHeight)
                       EXCEPT !.x = s[1], !.y = s[2], !.targetX = s[1], !.targetY = s[2]]

\* Placing flowers: the drawer's callback, clicks on the canvas and Escape.
NextPlacement ==
    \/ \E i \in Images : UserAction /\ StartFlowerPlacement(i) /\ UNCHANGED netVarsNoEvents
    \/ \E c \in ClickPositions : UserAction /\ HandleClick(c[1], c[2]) /\ UNCHANGED netVarsNoEvents
    \/ UserAction /\ Escape /\ UNCHANGED netVarsNoEvents

SpecPlacement == InitPlacement /\ [][NextPlacement]_vars

\* A cat and its owner: the game loop updates the cat every frame, and the
\* owner changes a bounded number of times.
CatFrame == \E dt \in DeltaTimes : CatUpdate(dt) /\ UNCHANGED netVars

NextCat ==
    \/ CatFrame
    \/ \E place \in OwnerPlaces, moving \in BOOLEAN :
          OwnerDeserialize(place, moving) /\ UNCHANGED netVars
    \/ OwnerUpdate /\ UNCHANGED netVars

SpecCat == Init /\ [][NextCat]_vars

\* Owners at rest: at one of the places, with the samples of an earlier walk
\* (none, one or two) in the history.
StillOwners ==
    {[Player("a", "Ann", at.x, at.y) EXCEPT !.positionHistory = h] :
        at \in OwnerPlaces \cup {[x |-> 160 * Unit, y |-> 24 * Unit]},
        h \in {<< >>,
               << [x |-> 114 * Unit, y |-> 24 * Unit, direction |-> RIGHT] >>,
               << [x |-> 24 * Unit, y |-> 144 * Unit, direction |-> DOWN],
                  [x |-> 28 * Unit, y |-> 144 * Unit, direction |-> RIGHT] >>}}

\* A cat is adopted by an owner at rest.
InitCatStill ==
    /\ InitRelay /\ InitFlowerStore /\ InitClient /\ InitGarden /\ supabaseConfigured = FALSE
    /\ InitEngine
    /\ seed = 0
    /\ localPlayer \in StillOwners
    /\ appended = << >>
    /\ frames = 0
    /\ cat = Cat(localPlayer)
    /\ query = [kind |-> "none"]
    /\ camera = Camera(MapWidth \div 2, MapHeight \div 2, MapWidth, MapHeight)

\* The game loop keeps running: requestAnimationFrame schedules every next
\* frame, and the owner stays at rest.
SpecCatLive == InitCatStill /\ [][CatFrame]_vars /\ WF_vars(CatFrame)

\* ------------------------------------------------------ derived notions

\* Connections that have joined and not yet disconnected.
Joined == {s \in Sockets : status[s] = "open" /\ currentPlayer[s] # 0}

\* The entry object of a joined connection.
EntryOf(s) == heap[currentPlayer[s]]

\* What connection q received from the last handler, in order.
Received(q) == SelectSeq(lastEmits, LAMBDA e : q \in e.to)

\* The events named ev among a sequence of emits.
Named(es, ev) == SelectSeq(es, LAMBDA e : e.ev = ev)

EventNames(es) == [i \in 1..Len(es) |-> es[i].ev]

\* ---------------------------------------------------------------- claims

\* C1: the players:current snapshot sent to a joining connection contains no
\* entry whose id equals the id supplied in that join.
C1_SnapshotExcludesJoiner ==
    lastEvent.type = "player:join" =>
        \A i \in 1..Len(lastEmits) :
            lastEmits[i].ev = "players:current" =>
                \A k \in 1..Len(lastEmits[i].payload) :
                    lastEmits[i].payload[k].id # lastEvent.id

\* A join whose snapshot is not empty while another joined connection holds
\* the same id (so the registry did hold an entry with the joiner's id).
C1_Witness ==
    /\ lastEvent.type = "player:join"
    /\ Len(lastEmits[1].payload) > 0
    /\ \E q \in Joined \ {lastEvent.socket} : EntryOf(q).id = lastEvent.id

\* C2: the registry corresponds one-to-one with the connections that have
\* joined and not disconnected: each has exactly one entry, stored under the
\* id it joined with, and there is no entry without such a connection.
C2_RegistryOneToOne ==
    /\ \A s \in Joined :
          /\ MapHas(players, EntryOf(s).id)
          /\ MapGet(players, EntryOf(s).id) = currentPlayer[s]
    /\ \A i \in 1..Len(players) : \E s \in Joined : players[i].ref = currentPlayer[s]
    /\ Len(players) = Cardinality(Joined)

\* C3: a move from a joined connection reaches every other connected
\* connection exactly once, with the sender's id and nickname and the
\* payload's fields, and never the sender.
C3_MoveFanOutNoEcho ==
    (lastEvent.type = "player:move" /\ lastEvent.joined) =>
        LET s == lastEvent.socket
            d == lastEvent.data
        IN  \A q \in Open :
                LET got == Named(Received(q), "player:moved")
                IN  IF q = s
                    THEN Len(got) = 0
                    ELSE /\ Len(got) = 1
                         /\ got[1].payload =
                                [id |-> EntryOf(s).id, nickname |-> EntryOf(s).nickname,
                                 x |-> d.x, y |-> d.y, direction |-> d.direction,
                                 isMoving |-> d.isMoving]

\* A move by a joined connection while two other connections are open, one of
\* them joined and one not.
C3_Witness ==
    /\ lastEvent.type = "player:move"
    /\ lastEvent.joined
    /\ \E q \in Joined \ {lastEvent.socket} : TRUE
    /\ \E q \in Open \ Joined : TRUE

\* C5: once a connection that joined has disconnected, the registry holds no
\* entry created by it, and no later snapshot lists such an entry.
C5_NoEntryOfDisconnected ==
    /\ \A i \in 1..Len(players) : status[heap[players[i].ref].socketId] # "closed"
    /\ \A i \in 1..Len(lastEmits) :
          lastEmits[i].ev = "players:current" =>
              \A k \in 1..Len(lastEmits[i].payload) :
                  status[lastEmits[i].payload[k].socketId] # "closed"

\* C6: a join stores the entry and then emits players:current to the joiner
\* only, player:joined (the new entry) to every other connection, and
\* player:count to all, in this order; a disconnect of a joined connection
\* emits player:left with its id and then player:count to all that remain.
C6_EmitOrder ==
    /\ lastEvent.type = "player:join" =>
          LET s == lastEvent.socket
          IN  /\ MapHas(players, lastEvent.id)
              /\ MapGet(players, lastEvent.id) = currentPlayer[s]
              /\ EventNames(lastEmits) = <<"players:current", "player:joined", "player:count">>
              /\ lastEmits[1].to = {s}
              /\ lastEmits[2].to = Open \ {s}
              /\ lastEmits[2].payload = EntryOf(s)
              /\ lastEmits[3].to = Open
    /\ (lastEvent.type = "disconnect" /\ lastEvent.joined) =>
          /\ EventNames(lastEmits) = <<"player:left", "player:count">>
          /\ lastEmits[1].payload = lastEvent.id
          /\ lastEmits[1].to = Open
          /\ lastEmits[2].to = Open

\* A joined connection disconnects while a joined and a never-joined
\* connection remain (the joined one received player:joined earlier or sent
\* it).
C6_Witness ==
    /\ lastEvent.type = "disconnect"
    /\ lastEvent.joined
    /\ Joined # {}
    /\ Open \ Joined # {}

\* C7: every broadcast player:count equals the number of connections that
\* are joined and not disconnected.
C7_CountIsJoinedConnections ==
    \A i \in 1..Len(lastEmits) :
        lastEmits[i].ev = "player:count" => lastEmits[i].payload = Cardinality(Joined)

\* C8: a move, a cat update or a disconnect on a connection that never joined
\* leaves the registry and its entries unchanged and emits nothing.
C8_NotJoinedIsNoOp ==
    [][ (/\ lastEvent'.type \in {"player:move", "player:cat", "disconnect"}
         /\ ~lastEvent'.joined)
        => (players' = players /\ heap' = heap /\ lastEmits' = << >>) ]_vars

\* A never-joined connection disconnects while the registry is not empty and
\* other connections are open.
C8_Witness ==
    /\ lastEvent.type = "disconnect"
    /\ ~lastEvent.joined
    /\ Len(players) > 0
    /\ Open # {}

\* C9: after a cat update c from a joined connection, the registry entry
\* stored under that connection's id has cat c; every other connection gets
\* exactly one player:cat:updated {playerId, cat: c} and the sender none.
C9_CatStoredAndFannedOut ==
    (lastEvent.type = "player:cat" /\ lastEvent.joined) =>
        LET s  == lastEvent.socket
            id == EntryOf(s).id
        IN  /\ MapHas(players, id)
            /\ heap[MapGet(players, id)].cat = lastEvent.data
            /\ \A q \in Open :
                  LET got == Named(Received(q), "player:cat:updated")
                  IN  IF q = s
                      THEN Len(got) = 0
                      ELSE /\ Len(got) = 1
                           /\ got[1].payload = [playerId |-> id, cat |-> lastEvent.data]

\* C4: every flower:place leads to exactly one flower:placed broadcast, sent
\* to every connected client including the sender, carrying the record the
\* store returned with the payload's x and y, and never before the store's
\* create has completed.
C4_FlowerPlacedOnceAfterCreate ==
    /\ \A id \in 1..Len(broadcasts) :
          broadcasts[id] = IF \E op \in pending : op.flower.id = id THEN 0 ELSE 1
    /\ \A i \in 1..Len(lastEmits) :
          lastEmits[i].ev = "flower:placed" =>
              /\ lastEmits[i].to = Open
              /\ \/ \E k \in 1..Len(inMemoryFlowers) : inMemoryFlowers[k] = lastEmits[i].payload
                 \/ \E k \in 1..Len(dbFlowers) : dbFlowers[k] = lastEmits[i].payload
              /\ lastEvent.type \in {"flower:place", "createFlower:settled"}
              /\ lastEmits[i].payload.x = lastEvent.data.x
              /\ lastEmits[i].payload.y = lastEvent.data.y
    /\ (lastEvent.type = "flower:place" /\ ~supabaseConfigured) =>
          /\ Len(Named(lastEmits, "flower:placed")) = 1
          /\ lastEvent.socket \in lastEmits[1].to
    /\ (lastEvent.type = "flower:place" /\ supabaseConfigured) => lastEmits = << >>
    /\ lastEvent.type = "createFlower:settled" =>
          /\ Len(Named(lastEmits, "flower:placed")) = 1
          /\ lastEmits[1].payload = lastEvent.flower

\* The external insert of a flower settles while its sender and another
\* client are connected, a second flower still being in flight.
C4_Witness ==
    /\ lastEvent.type = "createFlower:settled"
    /\ lastEvent.socket \in Open
    /\ Cardinality(Open) >= 2
    /\ pending # {}

\* C10: each sender of the adapter (move, cat, flower-place, flower-request)
\* emits its event exactly once when connected and is a no-op that never
\* throws when not connected.
C10_SendersEmitOnceOrNoOp ==
    lastCall.kind = "sender" =>
        /\ ~lastCall.threw
        /\ Len(lastCall.emitted) = IF lastCall.wasConnected THEN 1 ELSE 0

\* C11: the promise of connect() becomes resolved only in the step of the
\* transport's connect event, which finds it pending, sets the connected flag
\* and emits player:join with the playerData of connect(), before any inbound
\* event (the players:current snapshot included) was dispatched on that
\* connection; a connect event that finds the promise pending resolves it; the
\* promise becomes rejected exactly in a connect_error step that finds it
\* pending, that is, before the transport ever connected; and the first event
\* sent on a connection is player:join.
C11_ConnectSettlesOnTransport ==
    [][ LET call == lastCall'
            onConnect == call.kind = "listener" /\ call.method = "connect"
            onError == call.kind = "listener" /\ call.method = "connect_error"
        IN  /\ (promise' = "resolved" /\ promise # "resolved") =>
                   /\ onConnect /\ promise = "pending" /\ connected'
                   /\ call.emitted = << [ev |-> "player:join", payload |-> playerData'] >>
                   /\ ~dispatched'
            /\ (onConnect /\ promise = "pending") => promise' = "resolved"
            /\ (promise' = "rejected" /\ promise # "rejected") =>
                   onError /\ promise = "pending"
            /\ (onError /\ promise = "pending") => promise' = "rejected"
            /\ firstSent' \in {"none", "player:join"} ]_vars

\* The promise has just been resolved by the connect event, the join is on
\* the wire and no snapshot has been dispatched yet.
C11_Witness ==
    /\ promise = "resolved"
    /\ lastCall.kind = "listener" /\ lastCall.method = "connect"
    /\ firstSent = "player:join"
    /\ ~dispatched

\* The callback property the client assigns for an inbound event type.
HookOf(ev) ==
    CASE ev = "players:current" -> "onPlayersUpdate"
      [] ev = "player:joined" -> "onPlayerJoin"
      [] ev = "player:left" -> "onPlayerLeave"
      [] ev = "player:moved" -> "onPlayerMove"
      [] ev = "player:cat:updated" -> "onPlayerCatUpdate"
      [] ev = "player:count" -> "onPlayerCountChange"
      [] ev = "flowers:all" -> "onFlowersLoad"
      [] ev = "flower:placed" -> "onFlowerPlaced"

\* C12: an inbound event invokes the handler most recently assigned to the
\* callback property of its event type, exactly once, with the event's payload,
\* and invokes nothing else; it invokes nothing when the property is null.
C12_OneHookPerInboundEvent ==
    lastCall.kind = "inbound" =>
        lastCall.invoked =
            IF hooks[HookOf(lastCall.method)] # 0
            THEN << [hook |-> HookOf(lastCall.method),
                     handler |-> hooks[HookOf(lastCall.method)],
                     arg |-> lastCall.payload] >>
            ELSE << >>

\* C13: the position history has at most maxHistoryLength (30) samples and is
\* the tail of the samples appended so far, in append order;
\* getHistoricalPosition(k) is the sample k places before the newest one, the
\* oldest sample when k is at least the length of the history, and the player's
\* live position and direction when the history is empty.
C13_HistoryIsBoundedTail ==
    LET h == localPlayer.positionHistory
        n == Len(appended)
    IN  /\ Len(h) <= maxHistoryLength
        /\ Len(h) = Min(n, maxHistoryLength)
        /\ \A i \in 1..Len(h) : h[i] = appended[n - Len(h) + i]
        /\ \A k \in 0..(MaxFrames + 1) :
              GetHistoricalPosition(localPlayer, k) =
                  IF Len(h) = 0 THEN Sample(localPlayer)
                  ELSE IF k >= Len(h) THEN h[1]
                  ELSE h[Len(h) - k]

\* More samples were appended than the history holds: the oldest were evicted.
C13_Witness ==
    /\ Len(appended) > maxHistoryLength
    /\ Len(localPlayer.positionHistory) = maxHistoryLength
    /\ localPlayer.positionHistory[1] # appended[1]

\* The cat's target, its squared distance to it, and whether it is beyond 35.
CatTarget == Target(localPlayer)

CatDistance2 == Distance2(cat, CatTarget)

CatIsFar == Far(cat, CatTarget)

\* C14: on every Cat.update with the target farther than 35 the cat is moving
\* afterwards and strictly nearer to the target; on every Cat.update with the
\* target at most 35 away the cat is not moving afterwards and stays where it
\* is; and with the owner at rest the cat comes to rest for good, which by the
\* first part it does only within 35 of the target.
C14_CatClosesIn ==
    /\ [][ /\ CatIsFar => cat'.isMoving /\ CatDistance2' < CatDistance2
           /\ ~CatIsFar => ~cat'.isMoving /\ cat'.x = cat.x /\ cat'.y = cat.y ]_vars
    /\ <>[](~cat.isMoving)

\* The cat has walked to a target that lies in the owner's history and rests.
C14_Witness ==
    /\ Len(localPlayer.positionHistory) > 0
    /\ CatTarget # [x |-> ToCat(localPlayer.x), y |-> ToCat(localPlayer.y)]
    /\ ~CatIsFar
    /\ ~cat.isMoving
    /\ cat # Cat(localPlayer)
    /\ cat.idleTimer > 0

\* C15: the cat is asleep exactly when its idle time is at least 10000 ms, and
\* an asleep cat is not moving; an update after which the cat moves leaves it
\* awake with idle time 0, and the idle time grows only in updates after which
\* the cat does not move, by the frame's delta.
C15_AsleepIffIdleLong ==
    /\ [](/\ ~cat.isAwake <=> cat.idleTimer >= sleepThreshold
          /\ ~cat.isAwake => ~cat.isMoving)
    /\ [][ frames' = frames =>
              /\ cat'.isMoving => cat'.isAwake /\ cat'.idleTimer = 0
              /\ ~cat'.isMoving => (cat'.idleTimer - cat.idleTimer) \in DeltaTimes
              /\ cat'.idleTimer > cat.idleTimer => ~cat'.isMoving ]_vars

\* The cat fell asleep at its resting place after the owner had moved.
C15_Witness ==
    /\ ~cat.isAwake
    /\ cat.idleTimer >= sleepThreshold
    /\ frames > 0

\* C16: at a world position outside [0, mapWidth) x [0, mapHeight), negative
\* coordinates included, isWalkable and canPlaceFlower are both false; on the
\* map a path tile is walkable and no flower zone, and wherever a flower can be
\* placed the position is walkable.
C16_OffMapIsSolid ==
    query.kind = "collision" =>
        LET onMap == /\ 0 <= query.x /\ query.x < MapWidth
                     /\ 0 <= query.y /\ query.y < MapHeight
        IN  /\ ~onMap => ~query.isWalkable /\ ~query.canPlaceFlower
            /\ (onMap /\ query.tile = PATH) => query.isWalkable /\ ~query.canPlaceFlower
            /\ query.canPlaceFlower => query.isWalkable

\* A position left of and above the map was asked for and is solid.
C16_Witness ==
    /\ query.kind = "collision"
    /\ query.x < 0 /\ query.y < 0
    /\ ~query.isWalkable /\ ~query.canPlaceFlower
    /\ Tiles(TileOf(query.x), TileOf(query.y)) \in FLOWER_ZONES

\* The camera target the claim describes, on one axis: the followed coordinate
\* minus half the viewport, kept within 0 and world - viewport, and 0 where the
\* world is smaller than the viewport.
Centred(at, viewport, world) ==
    IF world < viewport THEN 0
    ELSE IF 2 * at - viewport < 0 THEN 0
    ELSE IF 2 * at - viewport > 2 * (world - viewport) THEN world - viewport
    ELSE (2 * at - viewport) \div 2

\* C20: after Camera.follow(fx, fy) the target is fx (fy) minus half the
\* viewport width (height) clamped into [0, world - viewport], and 0 on an axis
\* where the world is smaller than the viewport; so the target lies in
\* [0, max(0, world - viewport)].
C20_FollowTargetClamped ==
    query.kind = "follow" =>
        /\ camera.targetX = Centred(query.x, camera.viewportWidth, camera.worldWidth)
        /\ camera.targetY = Centred(query.y, camera.viewportHeight, camera.worldHeight)
        /\ 0 <= camera.targetX
        /\ camera.targetX <= Max(0, camera.worldWidth - camera.viewportWidth)
        /\ 0 <= camera.targetY
        /\ camera.targetY <= Max(0, camera.worldHeight - camera.viewportHeight)

\* The camera followed a position in a window wider than the world and lower
\* than it: the target is 0 across and strictly inside its range down.
C20_Witness ==
    /\ query.kind = "follow"
    /\ camera.worldWidth < camera.viewportWidth
    /\ camera.targetX = 0
    /\ 0 < camera.targetY
    /\ camera.targetY < camera.worldHeight - camera.viewportHeight

\* C18: on every frame of the game loop, with the local player and the move
\* handler in place, a move broadcast is emitted exactly when the player's
\* moving state changed on that frame or the player is moving after it, and
\* the broadcast carries the player as it is after the frame; a frame without
\* input therefore emits one broadcast with isMoving false when the player was
\* moving, and none when it was already at rest.
C18_MoveBroadcastIffMoving ==
    [][lastFrame'.kind = "frame" /\ "onPlayerMove" \in handlers =>
          LET changed == localPlayer'.isMoving # localPlayer.isMoving
              moves == lastFrame'.moves
          IN  /\ Len(moves) <= 1
              /\ (Len(moves) = 1) <=> (changed \/ localPlayer'.isMoving)
              /\ Len(moves) = 1 => moves[1] = Serialize(localPlayer')
              /\ KeyVelocity(keys) = <<0, 0>> =>
                    /\ ~localPlayer'.isMoving
                    /\ IF localPlayer.isMoving
                       THEN Len(moves) = 1 /\ ~moves[1].isMoving
                       ELSE moves = << >>]_vars

\* The frame after the keys were released: the one broadcast with isMoving false.
C18_Witness ==
    /\ lastFrame.kind = "frame"
    /\ Len(lastFrame.moves) = 1
    /\ ~lastFrame.moves[1].isMoving
    /\ localPlayer.x # 24 * Unit

\* C19: a message about a remote player sets its x and y to the message's
\* values, and every other step of the engine, the frames of the game loop
\* included, leaves the x and y of every remote player as they were: the
\* simulation neither moves nor collision-corrects a remote player.
C19_RemotePositionFromNetwork ==
    [][\A id \in DOMAIN remotePlayers' :
          IF lastFrame'.kind = "remote" /\ lastFrame'.data.id = id
          THEN /\ remotePlayers'[id].x = lastFrame'.data.x
               /\ remotePlayers'[id].y = lastFrame'.data.y
          ELSE /\ id \in DOMAIN remotePlayers
               /\ remotePlayers'[id].x = remotePlayers[id].x
               /\ remotePlayers'[id].y = remotePlayers[id].y]_vars

\* Two frames have run on a remote player that the network reported as walking
\* off the map, and it is still where the message put it.
C19_Witness ==
    /\ lastFrame.kind = "frame"
    /\ "b" \in DOMAIN remotePlayers
    /\ remotePlayers["b"].isMoving
    /\ Len(remotePlayers["b"].positionHistory) >= 2
    /\ remotePlayers["b"].x = -30 * Unit
    /\ remotePlayers["b"].y = 200 * Unit

\* The world position of the click recorded in a step, and whether it is armed
\* and on a flower zone.
ClickedWorldX == lastFrame'.x + camera.x

ClickedWorldY == lastFrame'.y + camera.y

ClickArmed == placement.mode /\ placement.pending # Null

ClickEligible ==
    LET tileX == ClickedWorldX \div (tileSize * Unit)
        tileY == ClickedWorldY \div (tileSize * Unit)
    IN  /\ tileX \in 0..(widthInTiles - 1)
        /\ tileY \in 0..(heightInTiles - 1)
        /\ Tiles(tileX, tileY) \in {GRASS, FLOWER_BED, GRASS_DARK}

\* C17: a click places a flower exactly when placement is armed with a payload
\* and the clicked world position is a flower zone; then the map gains exactly
\* that one flower at the clicked world position with the armed payload, the
\* placement callback is triggered once with it, and placement is disarmed with
\* no payload left; any other click leaves the map and the placement state as
\* they were and triggers nothing.
C17_ClickPlacesOnceWhenArmed ==
    [][lastFrame'.kind = "click" =>
          IF ClickArmed /\ ClickEligible
          THEN LET flower == [x |-> ClickedWorldX, y |-> ClickedWorldY,
                              imageData |-> placement.pending,
                              createdBy |-> localPlayer.nickname]
               IN  /\ mapFlowers' = Append(mapFlowers, flower)
                   /\ lastFrame'.placed = << flower >>
                   /\ placement' = [mode |-> FALSE, pending |-> Null]
          ELSE /\ mapFlowers' = mapFlowers
               /\ lastFrame'.placed = << >>
               /\ placement' = placement]_vars

\* Two flowers were placed by clicks at scrolled camera positions, the last
\* click placed the second, and placement is disarmed.
C17_Witness ==
    /\ lastFrame.kind = "click"
    /\ Len(lastFrame.placed) = 1
    /\ Len(mapFlowers) = 2
    /\ mapFlowers[1].imageData # mapFlowers[2].imageData
    /\ camera.x # 0
    /\ ~placement.mode

\* One axis of a camera update: the position stays between where it was and
\* the target; it is the target when less than half a pixel would remain after
\* a tenth of the distance, and otherwise it has advanced by a tenth of the
\* distance, to the thousandth of a pixel.
SmoothStep(at, next, target) ==
    LET d == target - at
        moved == next - at
    IN  /\ (d >= 0 => at <= next /\ next <= target)
        /\ (d <= 0 => target <= next /\ next <= at)
        /\ IF next = target
           THEN 2 * Abs(d) < Unit + 2 * (Abs(d) \div 10)
           ELSE /\ 10 * Abs(moved) <= Abs(d)
                /\ Abs(d) < 10 * Abs(moved) + 10
                /\ 2 * Abs(target - next) >= Unit

\* C21: with the target held, every Camera.update moves each axis a tenth of
\* the remaining distance towards the target without passing it, puts it on
\* the target once less than half a pixel remains, and leaves it on the target
\* from then on; the camera therefore reaches the target and stays there.
C21_CameraReachesTarget ==
    /\ [][/\ camera'.targetX = camera.targetX /\ camera'.targetY = camera.targetY
          /\ SmoothStep(camera.x, camera'.x, camera.targetX)
          /\ SmoothStep(camera.y, camera'.y, camera.targetY)]_vars
    /\ <>[](camera.x = camera.targetX /\ camera.y = camera.targetY)

\* The camera came to its target from far away, by smoothing and a last snap.
C21_Witness ==
    /\ camera.x = camera.targetX /\ camera.y = camera.targetY
    /\ camera.targetX = 12345 /\ camera.targetY = 48 * Unit

\* C22: setVelocity(vx, vy) faces RIGHT or LEFT by the sign of vx when
\* |vx| > |vy|, and otherwise DOWN or UP by the sign of vy when vy is not zero,
\* so a tie of two non-zero inputs faces DOWN or UP; with both inputs zero the
\* direction stays as it was; isMoving is true exactly when vx or vy is not zero.
C22_DirectionFromLargerAxis ==
    [][lastFrame'.kind = "setVelocity" =>
          LET vx == lastFrame'.vx
              vy == lastFrame'.vy
              direction == localPlayer'.direction
          IN  /\ Abs(vx) > Abs(vy) => direction = (IF vx > 0 THEN RIGHT ELSE LEFT)
              /\ Abs(vy) > Abs(vx) => direction = (IF vy > 0 THEN DOWN ELSE UP)
              /\ Abs(vx) = Abs(vy) /\ vx # 0 =>
                    direction = (IF vy > 0 THEN DOWN ELSE UP)
              /\ vx = 0 /\ vy = 0 => direction = localPlayer.direction
              /\ localPlayer'.isMoving <=> (vx # 0 \/ vy # 0)
              /\ localPlayer'.velocityX = vx /\ localPlayer'.velocityY = vy]_vars

\* A tie of two non-zero inputs, up and to the right: the player faces up.
C22_Witness ==
    /\ lastFrame.kind = "setVelocity"
    /\ lastFrame.vx = 707 /\ lastFrame.vy = -707
    /\ localPlayer.direction = UP
    /\ localPlayer.isMoving

\* The three collision sample points of a player's box centred at (x, y): the
\* two bottom corners, 4 px in, and the bottom centre, 4 px up.
SamplePointsWalkable(x, y) ==
    LET bottom == y - (playerHeight * Unit) \div 2 + playerHeight * Unit - 4 * Unit
        left == x - (playerWidth * Unit) \div 2
    IN  /\ MapIsWalkable((left + 4 * Unit) \div (tileSize * Unit), bottom \div (tileSize * Unit))
        /\ MapIsWalkable((left + playerWidth * Unit - 4 * Unit) \div (tileSize * Unit),
                         bottom \div (tileSize * Unit))
        /\ MapIsWalkable((left + (playerWidth * Unit) \div 2) \div (tileSize * Unit),
                         bottom \div (tileSize * Unit))

\* C23: a local player that starts with its three sample points on walkable
\* tiles has them on walkable tiles after every setVelocity and update with
\* the collision oracle; an update validates each axis on its own: x advances
\* exactly when the sample points at the new x and the old y are walkable, and
\* y advances exactly when those at the resulting x and the new y are.
C23_SamplePointsStayWalkable ==
    /\ [](SamplePointsWalkable(localPlayer.x, localPlayer.y))
    /\ [][lastFrame'.kind = "update" =>
            LET newX == localPlayer.x + localPlayer.velocityX * speed
                newY == localPlayer.y + localPlayer.velocityY * speed
            IN  /\ localPlayer'.x =
                      IF localPlayer.velocityX # 0 /\ SamplePointsWalkable(newX, localPlayer.y)
                      THEN newX ELSE localPlayer.x
                /\ localPlayer'.y =
                      IF localPlayer.velocityY # 0 /\ SamplePointsWalkable(localPlayer'.x, newY)
                      THEN newY ELSE localPlayer.y]_vars

\* An update in which the player pushed diagonally: x was blocked and kept, y
\* advanced.
C23_Witness ==
    /\ lastFrame.kind = "update"
    /\ localPlayer.velocityX # 0 /\ localPlayer.velocityY # 0
    /\ Len(appended) >= 2
    /\ appended[Len(appended)].x = appended[Len(appended) - 1].x
    /\ appended[Len(appended)].y # appended[Len(appended) - 1].y

\* C24: Player.update appends a position-history sample on exactly the frames
\* on which the player's position changed; an idle frame and a frame on which
\* every attempted axis is blocked append nothing.
C24_SampleIffPositionChanged ==
    [][lastFrame'.kind = "update" =>
          LET changed == localPlayer'.x # localPlayer.x \/ localPlayer'.y # localPlayer.y
          IN  (Len(appended') = Len(appended) + 1) <=> changed]_vars

\* C25: every remote cat is stored under an id that the remote-player map
\* holds, and the Player object it follows is the one stored under that id
\* now; removing a remote player leaves no cat under its id in the same step,
\* and a cat update for an id that the remote-player map does not hold leaves
\* no cat under that id.
C25_RemoteCatOwnerIsLive ==
    /\ [](\A id \in DOMAIN remoteCats :
            /\ id \in DOMAIN remotePlayers
            /\ remoteCats[id].owner = playerObjects.of[id])
    /\ [][/\ lastFrame'.kind = "removed" => lastFrame'.id \notin DOMAIN remoteCats'
          /\ lastFrame'.kind = "remoteCat" /\ lastFrame'.id \notin DOMAIN remotePlayers =>
                lastFrame'.id \notin DOMAIN remoteCats']_vars

\* A remote player was removed and came back as a new Player object, without
\* a cat, while another remote player has its cat.
C25_Witness ==
    /\ "b" \in DOMAIN remotePlayers
    /\ playerObjects.of["b"] = 3
    /\ "b" \notin DOMAIN remoteCats
    /\ "c" \in DOMAIN remoteCats

\* The nickname of the registry entry a connection made with its last join, or
\* 'Guest' for a connection that has not joined.
JoinedAs(s) == IF currentPlayer[s] = 0 THEN "Guest" ELSE heap[currentPlayer[s]].nickname

\* The flower records the relay holds: stored, or on their way to the store.
Records ==
    {inMemoryFlowers[i] : i \in 1..Len(inMemoryFlowers)}
        \cup {dbFlowers[i] : i \in 1..Len(dbFlowers)}
        \cup {op.flower : op \in pending}

\* C29: the record that a flower:place event creates carries as creator the
\* nickname under which the sending connection joined, or 'Guest' if it has not
\* joined, whatever createdBy the payload carries; the record is persisted and
\* broadcast with that creator, at once or when the external insert settles.
C29_CreatorIsJoinNickname ==
    [][/\ lastEvent'.type = "flower:place" =>
             LET s == lastEvent'.socket
                 made == {r \in Records' : r.id = nextFlowerId}
             IN  /\ Cardinality(made) = 1
                 /\ \A r \in made : r.created_by = JoinedAs(s)
                 /\ \A e \in {lastEmits'[i] : i \in 1..Len(lastEmits')} :
                       e.payload.created_by = JoinedAs(s)
       /\ lastEvent'.type = "createFlower:settled" =>
             \E op \in pending :
                 /\ op.flower.id = lastEvent'.flower.id
                 /\ Len(lastEmits') = 1
                 /\ lastEmits'[1].payload.created_by = op.flower.created_by
                 /\ \E r \in Records' :
                       r.id = op.flower.id /\ r.created_by = op.flower.created_by
       /\ \A r \in Records : \E q \in Records' : q.id = r.id /\ q.created_by = r.created_by
      ]_vars

\* Two records made by one connection that joined as Ann, from payloads whose
\* createdBy differ: both carry Ann.
C29_Witness ==
    /\ Len(inMemoryFlowers) = 2
    /\ inMemoryFlowers[1].created_by = "Ann"
    /\ inMemoryFlowers[2].created_by = "Ann"
    /\ lastEvent.type = "flower:place"
    /\ lastEvent.data.createdBy = "Mallory"
    /\ JoinedAs(lastEvent.socket) = "Ann"

\* C30: the connected flag becomes true in the transport's connect event,
\* false in its disconnect event and in disconnect(), and no other step
\* changes it; every connect event, a reconnection included, emits exactly
\* player:join with the playerData given to connect(), which only connect()
\* sets; a sender called while the flag is false emits nothing, and no step
\* other than a sender called while the flag is true or the connect event
\* emits anything, so nothing that was dropped is sent later.
C30_FlagFollowsTransport ==
    [][ LET call == lastCall'
            onConnect == call.kind = "listener" /\ call.method = "connect"
            onDisconnect == call.kind = "listener" /\ call.method = "disconnect"
            disconnectCalled == call.kind = "disconnect"
            emitted == IF call.kind \in {"sender", "listener", "connect", "disconnect"}
                       THEN call.emitted ELSE << >>
        IN  /\ connected' = IF onConnect THEN TRUE
                            ELSE IF onDisconnect \/ disconnectCalled THEN FALSE
                            ELSE connected
            /\ onConnect => emitted = << [ev |-> "player:join", payload |-> playerData] >>
            /\ playerData' # playerData => call.kind = "connect"
            /\ (call.kind = "sender" /\ ~connected) => emitted = << >>
            /\ (call.kind = "sender" /\ connected) => Len(emitted) <= 1
            /\ (call.kind # "sender" /\ ~onConnect) => emitted = << >> ]_vars

\* The promise was resolved, the transport then dropped, and a sender called
\* while the flag is false emitted nothing.
C30_Witness ==
    /\ lastCall.kind = "sender"
    /\ ~lastCall.wasConnected
    /\ lastCall.emitted = << >>
    /\ promise = "resolved"
    /\ socket = "disconnected"
    /\ ~connected



\* ------------------------------------------------- the garden as a whole

\* Nothing is in flight: every event sent was handled by the relay, every
\* event the relay sent was handled by its client, and no insert is pending.
Quiet ==
    /\ \A s \in Sockets : uplink[s] = << >> /\ downlink[s] = << >>
    /\ pending = {}

\* The flowers the users of the garden have placed so far.
PlacedFlowers == clients[1].placed + clients[2].placed

\* C26: once a placement and all its messages are handled, every connected
\* client's flower list holds exactly one record of it -- so a list never
\* holds more records than flowers were placed. The placing client's list
\* does: placeFlower adds the flower to the map, and the relay's flower:placed
\* goes to every connection, the sender included, whose callback adds it again.
C26_OneRecordPerPlacement ==
    Quiet => \A s \in Clients :
                clients[s].connected => Len(clients[s].flowers) <= PlacedFlowers

\* C27: no client's remote-player map holds an entry under the client's own
\* player id, also when two connections present the same id.
C27_NoSelfAmongRemotePlayers ==
    \A s \in Clients : clients[s].id \notin DOMAIN clients[s].remote

\* The ids of the relay's registry.
RegistryIds == {players[i].key : i \in 1..Len(players)}

\* The registry's entry of player id.
Registered(id) == heap[MapGet(players, id)]

\* What the relay's registry holds after the join or move that data is.
LastSent(data) ==
    [x |-> data.x, y |-> data.y,
     direction |-> IF "direction" \in DOMAIN data THEN data.direction ELSE 0,
     isMoving |-> IF "isMoving" \in DOMAIN data THEN data.isMoving ELSE FALSE]

SameMotion(p, q) ==
    /\ p.x = q.x
    /\ p.y = q.y
    /\ p.direction = q.direction
    /\ p.isMoving = q.isMoving

DistinctIds == \A s, q \in Clients : s # q => clients[s].id # clients[q].id

\* C28: with pairwise distinct player ids, whenever nothing is in flight, the
\* remote-player map of each joined client holds exactly the ids of the
\* relay's registry other than its own, each remote player's x, y, direction
\* and isMoving are those of the registry's entry, and the entry of each
\* joined client holds the values of its last join or move.
C28_RemotePlayersMatchRegistry ==
    (Quiet /\ DistinctIds) =>
        \A s \in Clients :
            clients[s].connected =>
                /\ DOMAIN clients[s].remote = RegistryIds \ {clients[s].id}
                /\ \A id \in DOMAIN clients[s].remote :
                      SameMotion(clients[s].remote[id], Registered(id))
                /\ clients[s].id \in RegistryIds
                /\ SameMotion(Registered(clients[s].id), LastSent(clients[s].sent))

\* Two clients with different ids have joined, the second has moved, and all
\* of it has reached the first.
C28_Witness ==
    /\ Quiet /\ DistinctIds
    /\ clients[1].connected /\ clients[2].connected
    /\ "direction" \in DOMAIN clients[2].sent
    /\ clients[2].id \in DOMAIN clients[1].remote
    /\ clients[1].remote[clients[2].id].x = 10
    /\ clients[1].remote[clients[2].id].isMoving

====
